---- MODULE Spec2Model ----
(***************************************************************************)
(* CP2614/CP2615 configuration tools (cfgtools).                           *)
(*                                                                         *)
(*   - usb_descriptor.py : the USB descriptor tree builder                 *)
(*   - packer.py         : the struct codec (pack / unpack) and the        *)
(*                         length / checksum finalisation of the device    *)
(*                         structs                                         *)
(*                                                                         *)
(* Bytes are integers 0..255, byte strings are sequences of bytes.         *)
(***************************************************************************)
EXTENDS Integers, Sequences, FiniteSets, TLC

VARIABLES
    \* ---- usb_descriptor.py: the descriptor objects built so far
    kind,        \* node -> class name of the object, "none" before construction
    desc_array,  \* node -> self.desc_array, the node's own header bytes
    children,    \* node -> self.children, ordered list of nodes
    \* ---- packer.py: the struct codec and its caller
    skip,        \* s_varray.skip, the one VarArray object of both tables
    structs,     \* the struct objects constructed so far
    items,       \* the caller's record (dict) that is passed to pack
    blob,        \* the buffer the caller holds: the last one pack returned
    unpacked,    \* the dict the last call returned, when it was an unpack
    packed,      \* the pack call that returned blob: struct, argument, result
    call,        \* a call made on a field type object itself: arguments, result
    last,        \* the last call made: operation, struct, outcome
    \* ---- encoder*.py, decoder*.py: the functions of the config tables
    enc          \* the call made: input dictionary, encoded values, decoded values

treeVars == <<kind, desc_array, children>>

codecVars == <<skip, structs, items, blob, unpacked, packed, last, call, enc>>

vars == <<kind, desc_array, children,
          skip, structs, items, blob, unpacked, packed, last, call, enc>>

(***************************************************************************)
(* Bounds of the model.                                                    *)
(***************************************************************************)
MaxNodes == 3

\* number of descriptor objects where every class is constructed
MaxVariantNodes == 2

\* largest size of a FixArray on which pack_into / unpack_from are called
MaxFixSize == 3

Nodes == 1..MaxNodes

(***************************************************************************)
(* Helpers on integers and byte strings.                                   *)
(***************************************************************************)
Min(a, b) == IF a < b THEN a ELSE b

\* Python's  ba[lo:hi]  for 0 <= lo, 0 <= hi: never fails, clips to the end.
Slice(ba, lo, hi) == SubSeq(ba, lo + 1, Min(hi, Len(ba)))

(***************************************************************************)
(* usb_descriptor.py                                                       *)
(***************************************************************************)
DEVICE        == 1
CONFIGURATION == 2
INTERFACE     == 4
ENDPOINT      == 5
CS_INTERFACE  == 36
HEADER         == 1
INPUT_TERMINAL == 2
FEATURE_UNIT   == 6
HID             == 33
HIDREPORT       == 34
CS_ENDPOINT     == 37
OUTPUT_TERMINAL == 3
AS_GENERAL      == 1
FORMAT_TYPE     == 2

\* UsbDescriptor.__init__(type, length): desc_array = [length, type]
UsbDescriptorInit(type, length) == <<length, type>>

\* ClassSpecificAudioDescriptor.__init__(subtype, length)
ClassSpecificAudioDescriptorInit(subtype, length) ==
    UsbDescriptorInit(CS_INTERFACE, length) \o <<subtype>>

\* get_length that adds the children's own headers only (no recursion)
get_length_shallow(da, ch, n) ==
    LET RECURSIVE kids(_)
        kids(s) == IF s = <<>> THEN 0 ELSE Len(da[Head(s)]) + kids(Tail(s))
    IN  Len(da[n]) + kids(ch[n])

RECURSIVE get_length_of(_, _, _)
\* UsbDescriptor.get_length on node n of the heap (da, ch)
get_length_of(da, ch, n) ==
    LET RECURSIVE kids(_)
        kids(s) == IF s = <<>> THEN 0
                   ELSE get_length_of(da, ch, Head(s)) + kids(Tail(s))
    IN  Len(da[n]) + kids(ch[n])

get_length(n) == get_length_of(desc_array, children, n)

RECURSIVE get_bytearray_of(_, _, _)
\* get_bytearray that takes the children from the last one to the first
get_bytearray_last_child_first(da, ch, n) ==
    LET RECURSIVE kids(_)
        kids(s) == IF s = <<>> THEN <<>>
                   ELSE kids(Tail(s)) \o get_bytearray_of(da, ch, Head(s))
    IN  da[n] \o kids(ch[n])

\* UsbDescriptor.get_bytearray on node n of the heap (da, ch)
get_bytearray_of(da, ch, n) ==
    LET RECURSIVE kids(_)
        kids(s) == IF s = <<>> THEN <<>>
                   ELSE get_bytearray_of(da, ch, Head(s)) \o kids(Tail(s))
    IN  da[n] \o kids(ch[n])

get_bytearray(n) == get_bytearray_of(desc_array, children, n)

\* compute_total_length that stores the two bytes in big-endian order
ConfigurationComputeTotalLengthBE(da, ch, n) ==
    LET total_length == get_length_of(da, ch, n)
    IN  [da EXCEPT ![n] = [@ EXCEPT ![3] = total_length \div 256,
                                    ![4] = total_length % 256]]

\* ConfigurationDescriptor.compute_total_length: rewrites bytes 2-3 (0-based)
ConfigurationComputeTotalLength(da, ch, n) ==
    LET total_length == get_length_of(da, ch, n)
    IN  [da EXCEPT ![n] = [@ EXCEPT ![3] = total_length % 256,
                                    ![4] = total_length \div 256]]

\* compute_total_length that counts the children but not the header itself
AudioControlHeaderComputeTotalLengthNoHeader(da, ch, n) ==
    LET total_length == get_length_of(da, ch, n) - Len(da[n])
    IN  [da EXCEPT ![n] = [@ EXCEPT ![6] = total_length % 256,
                                    ![7] = total_length \div 256]]

\* AudioControlHeader.compute_total_length: rewrites bytes 5-6 (0-based)
AudioControlHeaderComputeTotalLength(da, ch, n) ==
    LET total_length == get_length_of(da, ch, n)
    IN  [da EXCEPT ![n] = [@ EXCEPT ![6] = total_length % 256,
                                    ![7] = total_length \div 256]]

\* FeatureUnit.__init__: the bytes appended for the controls
RECURSIVE FeatureUnitControls(_, _)
FeatureUnitControls(control_size, controls) ==
    IF controls = <<>> THEN <<>>
    ELSE (IF control_size = 1 THEN <<Head(controls)>>
          ELSE IF control_size = 2
               THEN <<Head(controls) % 256, Head(controls) \div 256>>
               ELSE <<>>)
         \o FeatureUnitControls(control_size, Tail(controls))

\* AudioFormatTypeIDescriptor.__init__: three bytes per sample frequency
RECURSIVE SampleFreqBytes(_)
SampleFreqBytes(sample_freqs) ==
    IF sample_freqs = <<>> THEN <<>>
    ELSE << Head(sample_freqs) % 256, (Head(sample_freqs) \div 256) % 256,
            Head(sample_freqs) \div 65536 >>
         \o SampleFreqBytes(Tail(sample_freqs))

\* HidDescriptor.__init__: three bytes per (type, length) pair of desc_list,
\* the pairs given one after the other in a flat list
RECURSIVE HidDescBytes(_)
HidDescBytes(desc_list) ==
    IF Len(desc_list) < 2 THEN <<>>
    ELSE << desc_list[1], desc_list[2] % 256, desc_list[2] \div 256 >>
         \o HidDescBytes(Tail(Tail(desc_list)))

\* The constructor calls the model makes: class and arguments.
Ctors ==
    { [cls |-> "ConfigurationDescriptor", a |-> 1, list |-> <<>>],
      [cls |-> "InterfaceDescriptor",     a |-> 0, list |-> <<>>],
      [cls |-> "AudioControlHeader",      a |-> 0, list |-> <<>>],
      [cls |-> "AudioControlHeader",      a |-> 0, list |-> <<1, 2>>],
      [cls |-> "InputTerminal",           a |-> 1, list |-> <<>>],
      [cls |-> "FeatureUnit",             a |-> 2, list |-> <<1, 2>>],
      [cls |-> "EndpointDescriptor",      a |-> 1, list |-> <<>>] }

\* desc_array of the object right after its __init__ returned, with an
\* empty children list.
NewDescArray(c) ==
    CASE c.cls = "ConfigurationDescriptor" ->
            \* num_interfaces = c.a, config_value=1, iConf=0, self_powered,
            \* max_power=100; __init__ ends with compute_total_length()
            LET d == UsbDescriptorInit(CONFIGURATION, 9)
                       \o <<0, 0>> \o <<c.a, 1, 0>> \o <<192>> \o <<50>>
            IN  [d EXCEPT ![3] = Len(d) % 256, ![4] = Len(d) \div 256]
      [] c.cls = "InterfaceDescriptor" ->
            \* if_num = c.a, alt=0, num_eps=0, if_class=0, ...
            UsbDescriptorInit(INTERFACE, 9) \o <<c.a, 0, 0, 0, 0, 0, 0>>
      [] c.cls = "AudioControlHeader" ->
            \* ver=0x0100, if_collection = c.list; wTotalLength left dummy
            ClassSpecificAudioDescriptorInit(HEADER, 8 + Len(c.list))
              \o <<0, 1>> \o <<0, 0>> \o <<Len(c.list)>> \o c.list
      [] c.cls = "InputTerminal" ->
            \* term_id = c.a, TYPE_USB_STREAMING, assoc=0, 2 channels, config 3
            ClassSpecificAudioDescriptorInit(INPUT_TERMINAL, 12)
              \o <<c.a>> \o <<1, 1>> \o <<0>> \o <<2>> \o <<3, 0>> \o <<0, 0>>
      [] c.cls = "FeatureUnit" ->
            \* unit_id=3, source_id=1, control_size = c.a, controls = c.list
            ClassSpecificAudioDescriptorInit(FEATURE_UNIT,
                                             7 + Len(c.list) * c.a)
              \o <<3, 1, c.a>> \o FeatureUnitControls(c.a, c.list) \o <<0>>
      [] c.cls = "EndpointDescriptor" ->
            \* ep_address = c.a, DIR_INPUT, max_packet=64, XFER_BULK
            UsbDescriptorInit(ENDPOINT, 7)
              \o <<c.a + 128>> \o <<2>> \o <<64, 0>> \o <<0>>
      [] c.cls = "DeviceDescriptor" ->
            \* vid=0x10C4, pid = c.a, the other arguments at their defaults
            UsbDescriptorInit(DEVICE, 18)
              \o <<0, 2, 0, 0, 0, 64>> \o <<196, 16>>
              \o <<c.a % 256, c.a \div 256>> \o <<0, 1>> \o <<0, 0, 0, 1>>
      [] c.cls = "OutputTerminal" ->
            \* term_id = c.a, TYPE_SPEAKER, source_id=1, assoc=0, iTerm=0
            ClassSpecificAudioDescriptorInit(OUTPUT_TERMINAL, 9)
              \o <<c.a>> \o <<1, 3>> \o <<0>> \o <<1, 0>>
      [] c.cls = "AudioStreamingInterface" ->
            \* terminal_link = c.a, FORMAT_PCM, delay=0
            ClassSpecificAudioDescriptorInit(AS_GENERAL, 7)
              \o <<c.a, 0>> \o <<1, 0>>
      [] c.cls = "AudioFormatTypeIDescriptor" ->
            \* channels=2, subframe_size = c.a, bit_resolution = 8 * c.a,
            \* sample_freqs = c.list
            ClassSpecificAudioDescriptorInit(FORMAT_TYPE, 8 + Len(c.list) * 3)
              \o <<1>> \o <<2, c.a, 8 * c.a>> \o <<Len(c.list)>>
              \o SampleFreqBytes(c.list)
      [] c.cls = "AudioEndpointDescriptor" ->
            \* EndpointDescriptor(c.a, DIR_OUTPUT, 192, XFER_ISOC, SYNC_ASYNC),
            \* refresh=0, sync_addr=0; then desc_array[0] = 9
            [ UsbDescriptorInit(ENDPOINT, 7)
                \o <<c.a>> \o <<5>> \o <<192, 0>> \o <<0>> \o <<0, 0>>
              EXCEPT ![1] = 9 ]
      [] c.cls = "ClassSpecificAudioEndpoint" ->
            \* attributes = c.a, lock_units=0, lock_delay=0
            UsbDescriptorInit(CS_ENDPOINT, 7)
              \o <<1>> \o <<c.a>> \o <<0>> \o <<0, 0>>
      [] c.cls = "HidDescriptor" ->
            \* ver=0x0111, country_code = c.a, desc_list = the pairs of c.list
            UsbDescriptorInit(HID, 6 + (Len(c.list) \div 2) * 3)
              \o <<17, 1>> \o <<c.a, Len(c.list) \div 2>>
              \o HidDescBytes(c.list)

\* Constructor calls of the other classes and with other arguments.
VariantCtors ==
    { [cls |-> "DeviceDescriptor",           a |-> 60097, list |-> <<>>],
      [cls |-> "OutputTerminal",             a |-> 2, list |-> <<>>],
      [cls |-> "AudioStreamingInterface",    a |-> 1, list |-> <<>>],
      [cls |-> "AudioFormatTypeIDescriptor", a |-> 2, list |-> <<>>],
      [cls |-> "AudioFormatTypeIDescriptor", a |-> 2, list |-> <<48000, 44100>>],
      [cls |-> "AudioEndpointDescriptor",    a |-> 1, list |-> <<>>],
      [cls |-> "ClassSpecificAudioEndpoint", a |-> 1, list |-> <<>>],
      [cls |-> "HidDescriptor",              a |-> 0, list |-> <<>>],
      [cls |-> "HidDescriptor",              a |-> 0, list |-> <<HIDREPORT, 39>>],
      [cls |-> "AudioControlHeader",         a |-> 0, list |-> <<3, 4, 5>>],
      [cls |-> "FeatureUnit",                a |-> 1, list |-> <<1, 2, 2>>],
      [cls |-> "FeatureUnit",                a |-> 2, list |-> <<>>],
      [cls |-> "FeatureUnit",                a |-> 3, list |-> <<1>>],
      [cls |-> "FeatureUnit",                a |-> 4, list |-> <<1, 2>>] }

RECURSIVE Descendants(_, _)
\* the nodes of the subtree rooted at n (n included)
Descendants(ch, n) ==
    {n} \cup UNION { Descendants(ch, ch[n][i]) : i \in 1..Len(ch[n]) }

Constructed == { n \in Nodes : kind[n] # "none" }

Parents(c) == { p \in Nodes : \E i \in 1..Len(children[p]) : children[p][i] = c }

HasTotalLength(n) == kind[n] \in {"ConfigurationDescriptor", "AudioControlHeader"}

\* wTotalLength as stored in the node's own header (little-endian)
wTotalLength(n) ==
    IF kind[n] = "ConfigurationDescriptor"
    THEN desc_array[n][3] + 256 * desc_array[n][4]
    ELSE desc_array[n][6] + 256 * desc_array[n][7]

\* no descriptor object exists
NoTree ==
    /\ kind = [n \in Nodes |-> "none"]
    /\ desc_array = [n \in Nodes |-> <<>>]
    /\ children = [n \in Nodes |-> <<>>]

\* A bytearray is held in the state as its pages of 256 bytes; Store and
\* Load convert between a byte sequence and its pages.
Store(buf) ==
    [p \in 1..((Len(buf) + 255) \div 256) |->
        SubSeq(buf, (p - 1) * 256 + 1, Min(p * 256, Len(buf)))]

Load(pages) ==
    IF Len(pages) = 0 THEN <<>>
    ELSE [i \in 1..((Len(pages) - 1) * 256 + Len(pages[Len(pages)])) |->
             pages[((i - 1) \div 256) + 1][((i - 1) % 256) + 1]]

\* a dict with the byte values of its entries stored, and loaded
StoreItems(dict) == [n \in DOMAIN dict |-> [dict[n] EXCEPT !.b = Store(@)]]

LoadItems(dict) == [n \in DOMAIN dict |-> [dict[n] EXCEPT !.b = Load(@)]]

\* no call has been made
NoCall == [op |-> "none", struct |-> "none", ok |-> TRUE, rt |-> FALSE, pos |-> 0]

\* no method of a field type object has been called by itself
NoDirectCall == [op |-> "none", size |-> 0, fill |-> 0, buf |-> <<>>,
                 offset |-> 0, value |-> <<>>, out |-> <<>>, node |-> 0]

\* packer.py is loaded (s_varray = VarArray(), skip=0), no struct exists,
\* no function of the encoder and decoder modules has been called
NoEnc == [op |-> "none", d |-> <<>>, out |-> <<>>, back |-> <<>>]

\* the caller holds the record r
NoStruct(r) ==
    /\ call = NoDirectCall
    /\ enc = NoEnc
    /\ skip = 0
    /\ structs = {}
    /\ items = StoreItems(r)
    /\ blob = <<>>
    /\ unpacked = <<>>
    /\ packed = [by |-> "none", arg |-> <<>>, out |-> <<>>]
    /\ last = NoCall

TreeInit ==
    /\ NoTree
    /\ NoStruct(<<>>)

\* x = Class(args): the next free object is constructed
Construct(n, c) ==
    /\ kind[n] = "none"
    /\ \A m \in Nodes : m < n => kind[m] # "none"
    /\ kind' = [kind EXCEPT ![n] = c.cls]
    /\ desc_array' = [desc_array EXCEPT ![n] = NewDescArray(c)]
    /\ children' = [children EXCEPT ![n] = <<>>]
    /\ UNCHANGED codecVars

\* the variants that the text calls containers
Containers ==
    {"ConfigurationDescriptor", "InterfaceDescriptor", "AudioControlHeader"}

\* add_child that takes a child on a container only
add_child_on_container(p, c) ==
    /\ kind[p] \in Containers
    /\ kind[c] # "none"
    /\ p \notin Descendants(children, c)
    /\ Parents(c) = {}
    /\ LET ch == [children EXCEPT ![p] = Append(@, c)]
       IN  /\ children' = ch
           /\ desc_array' =
                 IF kind[p] = "ConfigurationDescriptor"
                 THEN ConfigurationComputeTotalLength(desc_array, ch, p)
                 ELSE IF kind[p] = "AudioControlHeader"
                 THEN AudioControlHeaderComputeTotalLength(desc_array, ch, p)
                 ELSE desc_array
    /\ UNCHANGED kind
    /\ UNCHANGED codecVars

\* p.add_child(c): UsbDescriptor.add_child, overridden by
\* ConfigurationDescriptor and AudioControlHeader to end with
\* compute_total_length().  The caller passes a node that is not p or an
\* ancestor of p (the descriptors form a tree).
add_child(p, c) ==
    /\ kind[p] # "none"
    /\ kind[c] # "none"
    /\ p \notin Descendants(children, c)
    /\ Parents(c) = {}
    /\ LET ch == [children EXCEPT ![p] = Append(@, c)]
       IN  /\ children' = ch
           /\ desc_array' =
                 IF kind[p] = "ConfigurationDescriptor"
                 THEN ConfigurationComputeTotalLength(desc_array, ch, p)
                 ELSE IF kind[p] = "AudioControlHeader"
                 THEN AudioControlHeaderComputeTotalLength(desc_array, ch, p)
                 ELSE desc_array
    /\ UNCHANGED kind
    /\ UNCHANGED codecVars

TreeNext ==
    \/ \E n \in Nodes, c \in Ctors : Construct(n, c)
    \/ \E p \in Nodes, c \in Nodes : add_child(p, c)

SpecTree == TreeInit /\ [][TreeNext]_vars

\* add_child as the library's own callers use it (AudioStreamingSubtree,
\* the module self-test): a node receives its children before it is itself
\* attached to a parent.
AddChildBottomUp(p, c) ==
    /\ Parents(p) = {}
    /\ add_child(p, c)

TreeBottomUpNext ==
    \/ \E n \in Nodes, c \in Ctors : Construct(n, c)
    \/ \E p \in Nodes, c \in Nodes : AddChildBottomUp(p, c)

SpecTreeBottomUp == TreeInit /\ [][TreeBottomUpNext]_vars

\* objects of every class, built from the first MaxVariantNodes nodes
VariantsNext ==
    \/ \E n \in 1..Min(MaxVariantNodes, MaxNodes), c \in Ctors \cup VariantCtors :
          Construct(n, c)
    \/ \E p \in Nodes, c \in Nodes : add_child(p, c)

SpecVariants == TreeInit /\ [][VariantsNext]_vars

\* out = n.get_bytearray(), called on any object of the tree that was built
GetBytearrayCall(n) ==
    /\ kind[n] # "none"
    /\ call.op = "none"
    /\ call' = [NoDirectCall EXCEPT !.op = "get_bytearray", !.node = n,
                                    !.out = get_bytearray(n)]
    /\ UNCHANGED <<kind, desc_array, children>>
    /\ UNCHANGED <<skip, structs, items, blob, unpacked, packed, last, enc>>

\* the constructor calls of the trees that are serialized: the classes
\* that recompute a total length, one that does not, and a leaf
SerializeCtors ==
    { c \in Ctors : c.cls \in { "ConfigurationDescriptor", "AudioControlHeader",
                                "InterfaceDescriptor", "EndpointDescriptor" } }

\* a tree is built and then serialized
SerializeNext ==
    \/ call.op = "none" /\ \E n \in Nodes, c \in SerializeCtors : Construct(n, c)
    \/ call.op = "none" /\ \E p \in Nodes, c \in Nodes : add_child(p, c)
    \/ \E n \in Nodes : GetBytearrayCall(n)

SpecSerialize == TreeInit /\ [][SerializeNext]_vars

(***************************************************************************)
(* Properties of the descriptor tree.                                      *)
(***************************************************************************)
\* sum of get_length() over the current children of n
RECURSIVE SumChildLengths(_)
SumChildLengths(s) ==
    IF s = <<>> THEN 0 ELSE get_length(Head(s)) + SumChildLengths(Tail(s))

\* C1: at every node of every descriptor tree built with the constructors
\* and add_child, get_length() equals len(get_bytearray()).
C1_LengthEqualsSerialized ==
    \A n \in Constructed : get_length(n) = Len(get_bytearray(n))

\* a tree of depth two: some node has a child that has a child
C1_Witness ==
    \E n \in Constructed :
        /\ children[n] # <<>>
        /\ children[children[n][1]] # <<>>
        /\ get_length(n) = Len(get_bytearray(n))
        /\ get_length(n) > Len(desc_array[n]) + Len(desc_array[children[n][1]])

\* C2 as stated: in every reachable state the wTotalLength field of every
\* ConfigurationDescriptor and AudioControlHeader equals the node's header
\* length plus the serialized length of all its descendants.
C2_NeverStale ==
    \A n \in Constructed :
        HasTotalLength(n) => wTotalLength(n) = Len(get_bytearray(n))

\* C2 amended: when the tree is built bottom-up, wTotalLength of every
\* ConfigurationDescriptor, and of every AudioControlHeader that has
\* received a child, equals the header length plus the serialized length of
\* all descendants; an AudioControlHeader without children holds 0.
C2_FreshWhenBottomUp ==
    \A n \in Constructed :
        /\ (kind[n] = "ConfigurationDescriptor"
              \/ (kind[n] = "AudioControlHeader" /\ children[n] # <<>>))
           => wTotalLength(n) = Len(get_bytearray(n))
        /\ (kind[n] = "AudioControlHeader" /\ children[n] = <<>>)
           => wTotalLength(n) = 0

\* a Configuration or Audio Control Header holding a finished subtree of
\* depth two, with the right total
C2_Witness ==
    \E n \in Constructed :
        /\ HasTotalLength(n)
        /\ children[n] # <<>>
        /\ children[children[n][1]] # <<>>
        /\ wTotalLength(n) = Len(get_bytearray(n))

\* what C3 promises of node p once add_child(c) has returned
AddChildPost(p, c) ==
    /\ children[p] # <<>>
    /\ children[p][Len(children[p])] = c
    /\ wTotalLength(p) = Len(desc_array[p]) + SumChildLengths(children[p])

\* C3: immediately after add_child(c) returns on a ConfigurationDescriptor
\* or AudioControlHeader p, c is the last child of p and p's wTotalLength
\* field equals len(own header) + sum of get_length() over p's children.
C3_AddChildRecomputes ==
    [][\A p \in Nodes, c \in Nodes :
          (add_child(p, c) /\ HasTotalLength(p)) => AddChildPost(p, c)']_vars

\* add_child has returned twice on a Configuration or Audio Control Header:
\* the node has two children and its field counts both
C3_Witness ==
    \E p \in Constructed :
        /\ HasTotalLength(p)
        /\ Len(children[p]) = 2
        /\ AddChildPost(p, children[p][2])

(***************************************************************************)
(* packer.py: values of a configuration record.                            *)
(* A Python value is an integer, a byte string or None; the three are kept *)
(* apart by the tag k.  An integer v is held as h * 2^24 + n with          *)
(* 0 <= n < 2^24, so that the values of a 4-byte field fit.                *)
(***************************************************************************)
I(v) == [k |-> "int",   h |-> v \div 16777216, n |-> v % 16777216, b |-> <<>>]
B(b) == [k |-> "bytes", h |-> 0, n |-> 0, b |-> b]
None == [k |-> "none",  h |-> 0, n |-> 0, b |-> <<>>]

\* what a pack_into / pack call gives back: the buffer, or an exception
Raised == [ok |-> FALSE, buf |-> <<>>]
Returned(buf) == [ok |-> TRUE, buf |-> buf]

\* buf[offset:offset+len(bytes)] = bytes, inside the buffer
Write(buf, offset, bytes) ==
    SubSeq(buf, 1, offset) \o bytes
        \o SubSeq(buf, offset + Len(bytes) + 1, Len(buf))

\* the field types: UByte(), UShortBE(), UIntBE(), FixArray(size, fill)
\* and the one VarArray() shared by both field tables
s_ubyte  == [t |-> "UByte",    size |-> 1, fill |-> 0]
s_ushort == [t |-> "UShortBE", size |-> 2, fill |-> 0]
s_uint   == [t |-> "UIntBE",   size |-> 4, fill |-> 0]
s_varray == [t |-> "VarArray", size |-> 4, fill |-> 0]
FixArray(size, fill) == [t |-> "FixArray", size |-> size, fill |-> fill]

\* one (name, s, default) entry of a field table
F(name, s, default) == [name |-> name, s |-> s, default |-> default]

\* UByte.pack_into that writes 0 for None
UBytePackIntoNoneZero(buf, offset, value) ==
    IF value.k = "none" THEN Returned(Write(buf, offset, <<0>>))
    ELSE IF value.k = "int" /\ value.h = 0 /\ value.n <= 255
    THEN Returned(Write(buf, offset, <<value.n>>))
    ELSE Raised

\* UByte.pack_into: a bytearray item takes an int in 0..255 only
UBytePackInto(buf, offset, value) ==
    IF value.k = "int" /\ value.h = 0 /\ value.n <= 255
    THEN Returned(Write(buf, offset, <<value.n>>))
    ELSE Raised

\* the two bytes of v with the low byte first
UShortLEBytes(v) == <<v % 256, (v \div 256) % 256>>

\* the two bytes UShortBE.pack_into stores for the integer v
UShortBEBytes(v) == <<(v \div 256) % 256, v % 256>>

\* UShortBE.pack_into
UShortBEPackInto(buf, offset, value) ==
    IF value.k = "int"
    THEN Returned(Write(buf, offset, UShortBEBytes(value.n)))
    ELSE Raised

\* UIntBE.pack_into
UIntBEPackInto(buf, offset, value) ==
    IF value.k = "int"
    THEN Returned(Write(buf, offset,
              << value.h % 256, (value.n \div 65536) % 256,
                 (value.n \div 256) % 256, value.n % 256 >>))
    ELSE Raised

\* value.ljust(size, fill)
Ljust(b, size, fill) ==
    IF Len(b) >= size THEN b
    ELSE b \o [i \in 1..(size - Len(b)) |-> fill]

\* FixArray.pack_into that pads the value but does not cut it
FixArrayPackIntoNoCut(s, buf, offset, value) ==
    IF value.k = "bytes"
    THEN Returned(Write(buf, offset, Ljust(value.b, s.size, s.fill)))
    ELSE Raised

\* FixArray.pack_into
FixArrayPackInto(s, buf, offset, value) ==
    IF value.k = "bytes"
    THEN Returned(Write(buf, offset,
                        SubSeq(Ljust(value.b, s.size, s.fill), 1, s.size)))
    ELSE Raised

\* VarArray.pack_into that stores the offset from the start of the buffer
VarArrayPackIntoAbsolute(sk, buf, offset, value) ==
    IF value.k = "bytes"
    THEN Returned(Write(Write(buf, offset, UShortBEBytes(Len(buf))),
                        offset + 2, UShortBEBytes(Len(value.b)))
                  \o value.b)
    ELSE Raised

\* VarArray.pack_into, sk the current self.skip
VarArrayPackInto(sk, buf, offset, value) ==
    IF value.k = "bytes"
    THEN LET voff == Len(buf) - sk
         IN  Returned(Write(Write(buf, offset, UShortBEBytes(voff)),
                            offset + 2, UShortBEBytes(Len(value.b)))
                      \o value.b)
    ELSE Raised

\* s.pack_into(buf, offset, value)
PackInto(s, sk, buf, offset, value) ==
    CASE s.t = "UByte"    -> UBytePackInto(buf, offset, value)
      [] s.t = "UShortBE" -> UShortBEPackInto(buf, offset, value)
      [] s.t = "UIntBE"   -> UIntBEPackInto(buf, offset, value)
      [] s.t = "FixArray" -> FixArrayPackInto(s, buf, offset, value)
      [] s.t = "VarArray" -> VarArrayPackInto(sk, buf, offset, value)

\* dict.get(name, default)
Get(dict, name, default) ==
    IF name \in DOMAIN dict THEN dict[name] ELSE default

RECURSIVE SizeOfFirst(_, _)
\* sum of s.size over the first i fields: the offset of field i+1
SizeOfFirst(fields, i) ==
    IF i = 0 THEN 0 ELSE fields[i].s.size + SizeOfFirst(fields, i - 1)

\* ConfigStruct.__init__: self.size
StructSize(fields) == SizeOfFirst(fields, Len(fields))

RECURSIVE PackLoop(_, _, _, _, _, _)
\* the loop of ConfigStruct.pack from field i on
PackLoop(fields, sk, dict, i, offset, buf) ==
    IF i > Len(fields) THEN Returned(buf)
    ELSE LET f == fields[i]
             r == PackInto(f.s, sk, buf, offset, Get(dict, f.name, f.default))
         IN  IF r.ok
             THEN PackLoop(fields, sk, dict, i + 1, offset + f.s.size, r.buf)
             ELSE Raised

\* ConfigStruct.pack(items)
ConfigStructPack(fields, sk, dict) ==
    PackLoop(fields, sk, dict, 1, 0,
             [i \in 1..StructSize(fields) |-> 0])

\* what an unpack_from call gives back: the value, or an exception
RaisedValue == [ok |-> FALSE, v |-> None]
ReturnedValue(v) == [ok |-> TRUE, v |-> v]

\* UByte.unpack_from
UByteUnpackFrom(buf, offset) ==
    IF offset < Len(buf) THEN ReturnedValue(I(buf[offset + 1]))
    ELSE RaisedValue

\* UShortBE.unpack_from
UShortBEUnpackFrom(buf, offset) ==
    IF offset + 1 < Len(buf)
    THEN ReturnedValue(I(buf[offset + 1] * 256 + buf[offset + 2]))
    ELSE RaisedValue

\* UIntBE.unpack_from
UIntBEUnpackFrom(buf, offset) ==
    IF offset + 3 < Len(buf)
    THEN ReturnedValue([k |-> "int", h |-> buf[offset + 1],
                        n |-> buf[offset + 2] * 65536
                              + buf[offset + 3] * 256 + buf[offset + 4],
                        b |-> <<>>])
    ELSE RaisedValue

\* FixArray.unpack_from
FixArrayUnpackFrom(s, buf, offset) ==
    ReturnedValue(B(Slice(buf, offset, offset + s.size)))

\* VarArray.unpack_from that takes the stored offset from the buffer start
VarArrayUnpackFromAbsolute(sk, buf, offset) ==
    LET o == UShortBEUnpackFrom(buf, offset + 0)
        l == UShortBEUnpackFrom(buf, offset + 2)
    IN  IF o.ok /\ l.ok
        THEN LET voff  == o.v.n
                 vsize == l.v.n
             IN  ReturnedValue(B(Slice(buf, voff, voff + vsize)))
        ELSE RaisedValue

\* VarArray.unpack_from, sk the current self.skip
VarArrayUnpackFrom(sk, buf, offset) ==
    LET o == UShortBEUnpackFrom(buf, offset + 0)
        l == UShortBEUnpackFrom(buf, offset + 2)
    IN  IF o.ok /\ l.ok
        THEN LET voff  == o.v.n + sk
                 vsize == l.v.n
             IN  ReturnedValue(B(Slice(buf, voff, voff + vsize)))
        ELSE RaisedValue

\* s.unpack_from(buf, offset)
UnpackFrom(s, sk, buf, offset) ==
    CASE s.t = "UByte"    -> UByteUnpackFrom(buf, offset)
      [] s.t = "UShortBE" -> UShortBEUnpackFrom(buf, offset)
      [] s.t = "UIntBE"   -> UIntBEUnpackFrom(buf, offset)
      [] s.t = "FixArray" -> FixArrayUnpackFrom(s, buf, offset)
      [] s.t = "VarArray" -> VarArrayUnpackFrom(sk, buf, offset)

\* the names of a field table
Names(fields) == { fields[i].name : i \in 1..Len(fields) }

\* the position of a name in a field table
IndexOf(fields, name) == CHOOSE i \in 1..Len(fields) : fields[i].name = name

\* self.offsets[name], set by ConfigStructCP261x.__init__
OffsetOf(fields, name) == SizeOfFirst(fields, IndexOf(fields, name) - 1)

\* dict(ConfigStruct.unpack(buf)): every field is read at its offset; the
\* dict is built only when no unpack_from raised
ConfigStructUnpack(fields, sk, buf) ==
    LET val(i) == UnpackFrom(fields[i].s, sk, buf, SizeOfFirst(fields, i - 1))
    IN  IF \A i \in 1..Len(fields) : val(i).ok
        THEN [ok |-> TRUE,
              items |-> [n \in Names(fields) |-> val(IndexOf(fields, n)).v]]
        ELSE [ok |-> FALSE, items |-> <<>>]

(***************************************************************************)
(* packer.py: the two field tables.                                        *)
(***************************************************************************)
cp2614_fields == <<
    F("cookie", FixArray(4, 255), B(<<50, 54, 49, 52>>)),
    F("version", s_ubyte, I(1)),
    F("configLockKey", s_ubyte, I(255)),
    F("serialStringUtf8Usb", FixArray(34, 255), None),
    F("checksum", s_ushort, I(0)),
    F("length", s_ushort, I(0)),
    F("optionID", s_ushort, None),
    F("debugMode", s_ubyte, None),
    F("defaultSampleRate", s_ubyte, None),
    F("clockingConfig", s_ubyte, None),
    F("audioOpts", s_ubyte, None),
    F("volumeAndMask", s_ushort, None),
    F("volumeOrMask", s_ushort, None),
    F("volumeBitStartPos", s_ubyte, None),
    F("usbPlaybackFeatureUnitVolumeMasterDefaultDb", s_ubyte, None),
    F("usbPlaybackFeatureUnitVolumeLeftDefaultDb", s_ubyte, None),
    F("usbPlaybackFeatureUnitVolumeRightDefaultDb", s_ubyte, None),
    F("usbPlaybackFeatureUnitVolumeMinDb", s_ubyte, None),
    F("usbPlaybackFeatureUnitVolumeMinCounts", s_ubyte, None),
    F("usbPlaybackFeatureUnitVolumeMaxDb", s_ubyte, None),
    F("usbPlaybackFeatureUnitVolumeMaxCounts", s_ubyte, None),
    F("usbPlaybackFeatureUnitVolumeResDbX256", s_ushort, None),
    F("muteConfig", s_ubyte, None),
    F("muteMask", s_ushort, None),
    F("volumeSettingForMute", s_ushort, None),
    F("mfiFeatureFlags", s_ubyte, None),
    F("authChipAddress", s_ubyte, None),
    F("appLaunchBundleID", s_varray, None),
    F("pinGpioMask", s_ushort, None),
    F("pinDirMask", s_ushort, None),
    F("pinModeMask", s_ushort, None),
    F("pinInitValue", s_ushort, None),
    F("gpioAltFunctions", FixArray(8, 255), None),
    F("buttonsConfiguration", FixArray(16, 0), None),
    F("serialDataRate", s_uint, None),
    F("clkoutDivider", s_ubyte, None),
    F("powerConfig", s_ubyte, None),
    F("availableSupplyWhenActive", s_ushort, None),
    F("availableSupplyWhenInactive", s_ushort, None),
    F("deviceCanChargeActive", s_ubyte, None),
    F("deviceCanChargeInactive", s_ubyte, None),
    F("usbDeviceDescriptor", s_varray, None),
    F("usbConfigurationDescriptor", s_varray, None),
    F("usbLanguageCode", s_ushort, None),
    F("manufacturerStringUtf8Usb", s_varray, None),
    F("productStringUtf8Usb", s_varray, None),
    F("serProtocolStringUtf8Usb", s_varray, None),
    F("iap2IdentParms", s_varray, None),
    F("iap2NowPlayingMediaItems", s_varray, None),
    F("iap2NowPlayingPlaybackItems", s_varray, None),
    F("spareConfigElements", FixArray(16, 255), B(<<>>)),
    F("delayFromStandbyDeassertToCodecInitMs", s_ubyte, None),
    F("i2cCmdStrCodecInit", s_varray, None),
    F("i2cCmdStrCodecHighToLow", s_varray, None),
    F("i2cCmdStrCodecLowToHigh", s_varray, B(<<1, 0>>)),
    F("i2cCmdStrCodecStart", s_varray, None),
    F("i2cCmdStrCodecStop", s_varray, None),
    F("i2cCmdStrSetVolumeLeftPrefix", s_varray, None),
    F("i2cCmdStrSetVolumeLeftSuffix", s_varray, None),
    F("i2cCmdStrSetVolumeRightPrefix", s_varray, None),
    F("i2cCmdStrSetVolumeRightSuffix", s_varray, None),
    F("i2cCmdStrGetMutePrefix", s_varray, None),
    F("i2cCmdStrSetMutePrefix", s_varray, None),
    F("i2cCmdStrSetMuteSuffix", s_varray, None),
    F("i2cCmdStrSetSampleRate44", s_varray, None),
    F("i2cCmdStrSetSampleRate48", s_varray, None),
    F("spareI2cCmdStr", FixArray(32, 255), B(<<>>)),
    F("endVarMarker", s_varray, B(<<86, 69, 78, 68>>)),
    F("endConfigMarker", FixArray(4, 255), B(<<83, 84, 79, 80>>)) >>

cp2615_fields == <<
    F("cookie", FixArray(4, 255), B(<<50, 54, 49, 52>>)),
    F("version", s_ubyte, I(1)),
    F("configLockKey", s_ubyte, I(255)),
    F("serialStringUtf8Usb", FixArray(34, 255), None),
    F("checksum", s_ushort, I(0)),
    F("length", s_ushort, I(0)),
    F("optionID", s_ushort, None),
    F("debugMode", s_ubyte, None),
    F("defaultSampleRate", s_ubyte, None),
    F("clockingConfig", s_ubyte, None),
    F("audioOpts", s_ubyte, None),
    F("volumeAndMask", s_ushort, None),
    F("volumeOrMask", s_ushort, None),
    F("volumeBitStartPos", s_ubyte, None),
    F("usbPlaybackFeatureUnitVolumeMasterDefaultDb", s_ubyte, None),
    F("usbPlaybackFeatureUnitVolumeLeftDefaultDb", s_ubyte, None),
    F("usbPlaybackFeatureUnitVolumeRightDefaultDb", s_ubyte, None),
    F("usbPlaybackFeatureUnitVolumeMinDb", s_ubyte, None),
    F("usbPlaybackFeatureUnitVolumeMinCounts", s_ubyte, None),
    F("usbPlaybackFeatureUnitVolumeMaxDb", s_ubyte, None),
    F("usbPlaybackFeatureUnitVolumeMaxCounts", s_ubyte, None),
    F("usbPlaybackFeatureUnitVolumeResDbX256", s_ushort, None),
    F("muteConfig", s_ubyte, None),
    F("muteMask", s_ushort, None),
    F("volumeSettingForMute", s_ushort, None),
    F("ioOptions", s_ubyte, None),
    F("unused-1", s_ubyte, I(0)),
    F("unused-2", s_varray, B(<<78, 47, 65, 0>>)),
    F("pinGpioMask", s_ushort, None),
    F("pinDirMask", s_ushort, None),
    F("pinModeMask", s_ushort, None),
    F("pinInitValue", s_ushort, None),
    F("gpioAltFunctions", FixArray(8, 255), None),
    F("buttonsConfiguration", FixArray(16, 0), None),
    F("serialDataRate", s_uint, None),
    F("clkoutDivider", s_ubyte, None),
    F("powerConfig", s_ubyte, None),
    F("unused-3", s_ushort, I(0)),
    F("unused-4", s_ushort, I(0)),
    F("unused-5", s_ubyte, I(0)),
    F("unused-6", s_ubyte, I(0)),
    F("usbDeviceDescriptor", s_varray, None),
    F("usbConfigurationDescriptor", s_varray, None),
    F("usbLanguageCode", s_ushort, None),
    F("manufacturerStringUtf8Usb", s_varray, None),
    F("productStringUtf8Usb", s_varray, None),
    F("serProtocolStringUtf8Usb", s_varray, None),
    F("unused-7", s_varray, B(<<0, 5, 0, 0, 0>>)),
    F("unused-8", s_varray, B(<<255, 255>>)),
    F("unused-9", s_varray, B(<<255, 255>>)),
    F("gestureDownTicks", s_ubyte, None),
    F("gestureUpTicks", s_ubyte, None),
    F("gestureButtons", FixArray(4, 0), None),
    F("spareConfigElements", FixArray(10, 255), B(<<>>)),
    F("delayFromStandbyDeassertToCodecInitMs", s_ubyte, None),
    F("i2cCmdStrCodecInit", s_varray, None),
    F("i2cCmdStrCodecHighToLow", s_varray, None),
    F("i2cCmdStrCodecLowToHigh", s_varray, B(<<1, 0>>)),
    F("i2cCmdStrCodecStart", s_varray, None),
    F("i2cCmdStrCodecStop", s_varray, None),
    F("i2cCmdStrSetVolumeLeftPrefix", s_varray, None),
    F("i2cCmdStrSetVolumeLeftSuffix", s_varray, None),
    F("i2cCmdStrSetVolumeRightPrefix", s_varray, None),
    F("i2cCmdStrSetVolumeRightSuffix", s_varray, None),
    F("i2cCmdStrGetMutePrefix", s_varray, None),
    F("i2cCmdStrSetMutePrefix", s_varray, None),
    F("i2cCmdStrSetMuteSuffix", s_varray, None),
    F("i2cCmdStrSetSampleRate44", s_varray, None),
    F("i2cCmdStrSetSampleRate48", s_varray, None),
    F("i2cCmdStrProfile0", s_varray, None),
    F("i2cCmdStrProfile1", s_varray, None),
    F("i2cCmdStrProfile2", s_varray, None),
    F("spareI2cCmdStr", FixArray(20, 255), B(<<>>)),
    F("endVarMarker", s_varray, B(<<86, 69, 78, 68>>)),
    F("endConfigMarker", FixArray(4, 255), B(<<83, 84, 79, 80>>)) >>

\* ConfigStructCP261x.__init__: the table chosen by the device name
FieldsOf(device) == IF device = "2614" THEN cp2614_fields ELSE cp2615_fields

\* sum(ba[lo:hi]), added up by halves
RECURSIVE SumRange(_, _, _)
SumRange(ba, lo, hi) ==
    IF hi <= lo THEN 0
    ELSE IF hi = lo + 1 THEN ba[hi]
    ELSE LET mid == (lo + hi) \div 2
         IN  SumRange(ba, lo, mid) + SumRange(ba, mid, hi)

\* sum(ba[lo:])
SumFrom(ba, lo) == SumRange(ba, lo, Len(ba))

\* checksum that starts at the offset of optionID, as length does
checksumFromOptionID(fields, buf) ==
    SumFrom(buf, OffsetOf(fields, "optionID")) % 65536

\* ConfigStructCP261x.checksum
checksum(fields, buf) == SumFrom(buf, OffsetOf(fields, "length")) % 65536

\* ConfigStructCP261x.length
length(fields, buf) == Len(buf) - OffsetOf(fields, "optionID")

\* dict[name] = value
SetItem(dict, name, value) ==
    [n \in DOMAIN dict \cup {name} |-> IF n = name THEN value ELSE dict[n]]

\* pack that takes the checksum of the first buffer, before the length is set
ConfigStructCP261xPackChecksumFirst(fields, sk, dict) ==
    LET blob1  == ConfigStructPack(fields, sk, dict)
        items1 == SetItem(dict, "checksum", I(checksum(fields, blob1.buf)))
        items2 == SetItem(items1, "length", I(length(fields, blob1.buf)))
        blob3  == ConfigStructPack(fields, sk, items2)
    IN  IF blob1.ok
        THEN [ok |-> TRUE, buf |-> blob3.buf, items |-> items2]
        ELSE [ok |-> FALSE, buf |-> <<>>, items |-> dict]

\* ConfigStructCP261x.pack(items): returns the final buffer and leaves the
\* caller's dict as the two assignments made it
ConfigStructCP261xPack(fields, sk, dict) ==
    LET blob1  == ConfigStructPack(fields, sk, dict)
        items1 == SetItem(dict, "length", I(length(fields, blob1.buf)))
        blob2  == ConfigStructPack(fields, sk, items1)
        items2 == SetItem(items1, "checksum", I(checksum(fields, blob2.buf)))
        blob3  == ConfigStructPack(fields, sk, items2)
    IN  IF blob1.ok
        THEN [ok |-> TRUE, buf |-> blob3.buf, items |-> items2]
        ELSE [ok |-> FALSE, buf |-> <<>>, items |-> dict]

\* isvalid that compares the cookie and the length only
isvalidNoChecksum(fields, sk, buf) ==
    LET u == ConfigStructUnpack(fields, sk, buf)
    IN  IF ~u.ok THEN "raise"
        ELSE IF u.items["cookie"] # B(<<50, 54, 49, 52>>) THEN "False"
        ELSE IF u.items["length"] # I(length(fields, buf)) THEN "False"
        ELSE "True"

\* ConfigStructCP261x.isvalid(buf): "raise" when the unpack raises
isvalid(fields, sk, buf) ==
    LET u == ConfigStructUnpack(fields, sk, buf)
    IN  IF ~u.ok THEN "raise"
        ELSE IF u.items["cookie"] # B(<<50, 54, 49, 52>>) THEN "False"
        ELSE IF u.items["checksum"] # I(checksum(fields, buf)) THEN "False"
        ELSE IF u.items["length"] # I(length(fields, buf)) THEN "False"
        ELSE "True"

(***************************************************************************)
(* packer.py: the struct objects and the calls made on them.               *)
(***************************************************************************)
\* the struct objects the model constructs: ConfigStruct(cp2614_fields),
\* ConfigStructCP2614() and ConfigStructCP2615()
StructKinds == {"ConfigStruct", "ConfigStructCP2614", "ConfigStructCP2615"}

DeviceKinds == {"ConfigStructCP2614", "ConfigStructCP2615"}

\* self.fields where the CP2615 table is four bytes shorter than the CP2614
\* table: it lacks its last field, endConfigMarker
FieldsOfStructShorter2615(k) ==
    IF k = "ConfigStructCP2615"
    THEN SubSeq(FieldsOf("2615"), 1, Len(FieldsOf("2615")) - 1)
    ELSE FieldsOf("2614")

\* self.fields of a struct object
FieldsOfStruct(k) ==
    IF k = "ConfigStructCP2615" THEN FieldsOf("2615") ELSE FieldsOf("2614")

\* a record that gives every field without a default a value of its type
BaseItems(fields) ==
    [n \in { fields[i].name : i \in { j \in 1..Len(fields) :
                                        fields[j].default = None } } |->
        LET f == fields[IndexOf(fields, n)]
        IN  CASE f.s.t = "UByte"    -> I(7)
              [] f.s.t = "UShortBE" -> I(513)
              [] f.s.t = "UIntBE"   -> I(115200)
              [] f.s.t = "FixArray" -> B([i \in 1..f.s.size |-> 48 + i])
              [] f.s.t = "VarArray" -> B(<<>>)]

\* a payload whose length does not fit the 16 bits of a VarArray slot
BigPayload == [i \in 1..65536 |-> i % 256]

\* no entry for a key
Absent == [n \in {} |-> None]

\* a dict without the key name
Without(dict, name) == [n \in DOMAIN dict \ {name} |-> dict[n]]

\* the records the caller of pack / unpack builds
CodecRecords ==
    { serial @@ opt @@ dev @@ cfg @@ BaseItems(cp2614_fields) :
        serial \in { Absent,
                     "serialStringUtf8Usb" :> B(<<65, 66>>),
                     "serialStringUtf8Usb" :> B([i \in 1..36 |-> i]) },
        opt    \in { Absent, "optionID" :> I(70000) },
        dev    \in { Absent, "usbDeviceDescriptor" :> B(<<255, 0, 18>>) },
        cfg    \in { Absent, "usbConfigurationDescriptor" :> B(<<9, 2>>) } }
    \cup
    { ("i2cCmdStrSetSampleRate44" :> B(<<255, 0>>))
        @@ ("i2cCmdStrSetSampleRate48" :> B(BigPayload))
        @@ BaseItems(cp2614_fields) }
    \cup
    \* one field without a default is left out
    { Without(BaseItems(cp2614_fields), n) :
        n \in { "debugMode", "optionID", "serialDataRate",
                "serialStringUtf8Usb", "appLaunchBundleID" } }
    \cup
    \* a key is present with the value None
    { (n :> None) @@ BaseItems(cp2614_fields) :
        n \in { "version", "cookie", "endVarMarker" } }
    \cup
    \* an integer wider than its field: 256 and -1 in one byte,
    \* 2^32 + 5 in four bytes
    { ("version" :> I(256)) @@ BaseItems(cp2614_fields),
      ("version" :> I(-1)) @@ BaseItems(cp2614_fields),
      ("serialDataRate" :> [I(5) EXCEPT !.h = 256])
          @@ ("volumeAndMask" :> I(-2)) @@ BaseItems(cp2614_fields) }

\* the records the caller of the device structs' pack builds
DeviceRecords ==
    { cookie @@ place @@ BaseItems(cp2614_fields) :
        cookie \in { Absent,
                     "cookie" :> B(<<50, 54, 49, 52>>),
                     "cookie" :> B(<<50, 54, 49, 53>>) },
        place  \in { Absent,
                     ("length" :> I(48879)) @@ ("checksum" :> I(4660)) } }
    \cup
    { ("usbDeviceDescriptor" :> B(<<255, 0, 18>>)) @@ BaseItems(cp2614_fields) }
    \cup
    { place @@ BaseItems(cp2615_fields) :
        place  \in { Absent, "length" :> I(1) } }

\* the changes made to one byte of a buffer
TamperDeltas == {1, 255}

CodecInit == NoTree /\ \E r \in CodecRecords : NoStruct(r)

DeviceInit == NoTree /\ \E r \in DeviceRecords : NoStruct(r)

\* a constructor that leaves the skip of the VarArray as it is
ConstructStructKeepSkip(k) ==
    /\ blob = packed.out
    /\ structs' = structs \cup {k}
    /\ unpacked' = <<>>
    /\ last' = [op |-> "construct", struct |-> k, ok |-> TRUE,
                rt |-> FALSE, pos |-> 0]
    /\ UNCHANGED <<skip, items, blob, packed>>
    /\ UNCHANGED <<call, enc>>
    /\ UNCHANGED treeVars

\* s = ConfigStruct(cp2614_fields) / ConfigStructCP2614() / ConfigStructCP2615();
\* ConfigStructCP261x.__init__ sets the skip of every VarArray of its table,
\* which is s_varray, to self.size.  (A buffer that the caller changed or
\* cut is read and then dropped: no further object is made while it is held.)
ConstructStruct(k) ==
    /\ blob = packed.out
    /\ structs' = structs \cup {k}
    /\ skip' = IF k \in DeviceKinds THEN StructSize(FieldsOfStruct(k)) ELSE skip
    /\ unpacked' = <<>>
    /\ last' = [op |-> "construct", struct |-> k, ok |-> TRUE,
                rt |-> FALSE, pos |-> 0]
    /\ UNCHANGED <<items, blob, packed>>
    /\ UNCHANGED <<call, enc>>
    /\ UNCHANGED treeVars

\* blob = s.pack(items)
Pack(k) ==
    /\ blob = packed.out
    /\ k \in structs
    /\ LET arg == LoadItems(items)
           r   == IF k \in DeviceKinds
                  THEN ConfigStructCP261xPack(FieldsOfStruct(k), skip, arg)
                  ELSE ConfigStructPack(FieldsOfStruct(k), skip, arg)
                         @@ [items |-> arg]
       IN  /\ items' = StoreItems(r.items)
           /\ blob' = IF r.ok THEN Store(r.buf) ELSE blob
           /\ packed' = IF r.ok
                        THEN [by |-> k, arg |-> items, out |-> Store(r.buf)]
                        ELSE packed
           /\ last' = [op |-> "pack", struct |-> k, ok |-> r.ok,
                       rt |-> FALSE, pos |-> 0]
    /\ unpacked' = <<>>
    /\ UNCHANGED <<skip, structs>>
    /\ UNCHANGED <<call, enc>>
    /\ UNCHANGED treeVars

\* d = dict(s.unpack(blob)); rt tells that blob was returned by the call
\* just before, a pack of the same struct
Unpack(k) ==
    /\ k \in structs
    /\ packed.by # "none"
    /\ LET u == ConfigStructUnpack(FieldsOfStruct(k), skip, Load(blob))
       IN  /\ unpacked' = IF u.ok THEN StoreItems(u.items) ELSE <<>>
           /\ last' = [op |-> "unpack", struct |-> k, ok |-> u.ok,
                       rt |-> (last.op = "pack" /\ last.ok /\ last.struct = k),
                       pos |-> 0]
    /\ UNCHANGED <<skip, structs, items, blob, packed>>
    /\ UNCHANGED <<call, enc>>
    /\ UNCHANGED treeVars

\* one byte of the buffer a device struct's pack just returned is changed;
\* the changed buffer is looked at (isvalid) and used for nothing else
Tamper(pos, d) ==
    /\ last.op = "pack" /\ last.ok /\ last.struct \in DeviceKinds
    /\ pos \in 1..Len(Load(blob))
    /\ blob' = Store([Load(blob) EXCEPT ![pos] = (@ + d) % 256])
    /\ last' = [op |-> "tamper", struct |-> last.struct, ok |-> TRUE,
                rt |-> FALSE, pos |-> pos]
    /\ unpacked' = <<>>
    /\ UNCHANGED <<skip, structs, items, packed>>
    /\ UNCHANGED <<call, enc>>
    /\ UNCHANGED treeVars

\* the caller keeps only the first n bytes of the buffer a device struct's
\* pack just returned (a file that was cut short)
Truncate(n) ==
    /\ last.op = "pack" /\ last.ok /\ last.struct \in DeviceKinds
    /\ n \in 0..(Len(Load(blob)) - 1)
    /\ blob' = Store(SubSeq(Load(blob), 1, n))
    /\ last' = [op |-> "truncate", struct |-> last.struct, ok |-> TRUE,
                rt |-> FALSE, pos |-> n]
    /\ unpacked' = <<>>
    /\ UNCHANGED <<skip, structs, items, packed>>
    /\ UNCHANGED <<call, enc>>
    /\ UNCHANGED treeVars

\* the computed and constant fields that the round trip test deletes
ComputedAndConstant ==
    {"cookie", "checksum", "length", "endVarMarker", "endConfigMarker"}

RECURSIVE DictWithout(_, _, _, _)
\* the dict of the first i fields of the table without the deleted names
DictWithout(fields, dict, deleted, i) ==
    IF i = 0 THEN Absent
    ELSE IF fields[i].name \in deleted
    THEN DictWithout(fields, dict, deleted, i - 1)
    ELSE (fields[i].name :> dict[fields[i].name])
         @@ DictWithout(fields, dict, deleted, i - 1)

\* the round trip test of the module: cfg_dict = dict(s.unpack(cfg_in)),
\* del cfg_dict[name] for the computed and constant fields,
\* cfg_out = s.pack(cfg_dict); cfg_in is the buffer that s.pack returned
\* just before, the caller holds cfg_out afterwards
Repack(k) ==
    /\ last.op = "pack" /\ last.ok /\ last.struct = k
    /\ k \in DeviceKinds
    /\ blob = packed.out
    /\ LET u        == ConfigStructUnpack(FieldsOfStruct(k), skip, Load(blob))
           cfg_dict == DictWithout(FieldsOfStruct(k), u.items,
                                   ComputedAndConstant,
                                   Len(FieldsOfStruct(k)))
           r        == ConfigStructCP261xPack(FieldsOfStruct(k), skip, cfg_dict)
       IN  /\ u.ok
           /\ items' = StoreItems(r.items)
           /\ blob' = IF r.ok THEN Store(r.buf) ELSE blob
           /\ packed' = IF r.ok
                        THEN [by |-> k, arg |-> StoreItems(cfg_dict),
                              out |-> Store(r.buf)]
                        ELSE packed
           /\ last' = [op |-> "repack", struct |-> k, ok |-> r.ok,
                       rt |-> FALSE, pos |-> 0]
    /\ unpacked' = <<>>
    /\ UNCHANGED <<skip, structs>>
    /\ UNCHANGED <<call, enc>>
    /\ UNCHANGED treeVars

\* device structs are constructed, pack a record, and the buffer goes
\* through the round trip test
RepackNext ==
    \/ \E k \in DeviceKinds : ConstructStruct(k)
    \/ \E k \in DeviceKinds : Pack(k)
    \/ \E k \in DeviceKinds : Repack(k)

SpecRepack == DeviceInit /\ [][RepackNext]_vars

\* the base codec: pack and unpack are called on ConfigStruct objects,
\* device structs are constructed next to them
CodecNext ==
    \/ \E k \in StructKinds : ConstructStruct(k)
    \/ \E k \in StructKinds \ DeviceKinds : Pack(k)
    \/ \E k \in StructKinds \ DeviceKinds : Unpack(k)

SpecCodec == CodecInit /\ [][CodecNext]_vars

DeviceNext ==
    \/ \E k \in DeviceKinds : ConstructStruct(k)
    \/ \E k \in DeviceKinds : Pack(k)
    \/ \E pos \in 1..Len(Load(blob)), d \in TamperDeltas : Tamper(pos, d)

SpecDevice == DeviceInit /\ [][DeviceNext]_vars

\* the record whose buffer is cut short before it is read
MalformedRecords ==
    { ("usbDeviceDescriptor" :> B(<<255, 0, 18>>)) @@ BaseItems(cp2614_fields) }

MalformedInit == NoTree /\ \E r \in MalformedRecords : NoStruct(r)

\* a buffer packed by ConfigStructCP2614 is cut short and then unpacked
MalformedNext ==
    \/ ConstructStruct("ConfigStructCP2614")
    \/ Pack("ConfigStructCP2614")
    \/ \E n \in 0..(Len(Load(blob)) - 1) : Truncate(n)
    \/ Unpack("ConfigStructCP2614")

SpecMalformed == MalformedInit /\ [][MalformedNext]_vars

(***************************************************************************)
(* Properties of the struct codec and of the device structs.               *)
(***************************************************************************)
\* the buffer the caller holds, the record and the result of the pack call
\* that returned it, and the dict the last unpack returned
Blob == Load(blob)

PackedArg == LoadItems(packed.arg)

PackedOut == Load(packed.out)

Unpacked == LoadItems(unpacked)

\* a device struct's pack has just returned a buffer
JustFinalized == last.op = "pack" /\ last.ok /\ last.struct \in DeviceKinds

\* the two bytes at 0-based offset off, read big-endian
StoredU16(buf, off) == buf[off + 1] * 256 + buf[off + 2]

\* the record's cookie is absent or begins with b'2614'
CookieIs2614(dict) ==
    "cookie" \in DOMAIN dict =>
        /\ Len(dict["cookie"].b) >= 4
        /\ SubSeq(dict["cookie"].b, 1, 4) = <<50, 54, 49, 52>>

\* C4 as stated: for every record the device struct's pack accepts, the
\* returned buffer is valid, isvalid(pack(record)) is true.
C4_PackedIsValid ==
    JustFinalized => isvalid(FieldsOfStruct(last.struct), skip, Blob) = "True"

\* C4 amended: for every accepted record whose cookie entry is absent or
\* begins with b'2614' and whose image keeps the length below 65536, the
\* buffer the device struct's pack returns is valid, whatever the record held
\* for length and checksum.
C4_PackedIsValidFor2614 ==
    (/\ JustFinalized
     /\ CookieIs2614(PackedArg)
     /\ length(FieldsOfStruct(last.struct), Blob) < 65536)
    => isvalid(FieldsOfStruct(last.struct), skip, Blob) = "True"

\* a record with placeholder values for length and checksum was packed and
\* the buffer is valid
C4_Witness ==
    /\ JustFinalized
    /\ "length" \in DOMAIN PackedArg
    /\ PackedArg["length"] = I(48879)
    /\ "checksum" \in DOMAIN PackedArg
    /\ isvalid(FieldsOfStruct(last.struct), skip, Blob) = "True"

\* the value s.pack_into / s.unpack_from carry through a round trip
Encoded(f, value) ==
    CASE f.s.t = "UByte"    -> value
      [] f.s.t = "UShortBE" -> I(value.n % 65536)
      [] f.s.t = "UIntBE"   -> [value EXCEPT !.h = @ % 256]
      [] f.s.t = "FixArray" ->
            B(SubSeq(Ljust(value.b, f.s.size, f.s.fill), 1, f.s.size))
      [] f.s.t = "VarArray" -> value

RECURSIVE TailBefore(_, _, _)
\* the number of payload bytes the variable fields before field i append
TailBefore(fields, dict, i) ==
    IF i <= 1 THEN 0
    ELSE TailBefore(fields, dict, i - 1)
         + (IF fields[i - 1].s.t = "VarArray"
            THEN Len(Get(dict, fields[i - 1].name, fields[i - 1].default).b)
            ELSE 0)

\* the payload of variable field i and its offset fit their 16-bit slot
FitsSlot(fields, sk, dict, i) ==
    /\ Len(Get(dict, fields[i].name, fields[i].default).b) < 65536
    /\ StructSize(fields) + TailBefore(fields, dict, i) - sk < 65536

\* unpack has just returned the dict of the buffer that the pack call
\* before it, on the same struct, returned
RoundTrip == last.op = "unpack" /\ last.ok /\ last.rt

\* C5 as stated: unpack(pack(r)) returns for every field present in r
\* exactly its value and for every absent field the declared default.
C5_RoundTripExact ==
    RoundTrip =>
        \A i \in 1..Len(FieldsOfStruct(last.struct)) :
            LET f == FieldsOfStruct(last.struct)[i]
            IN  Unpacked[f.name] = Get(PackedArg, f.name, f.default)

\* C5 amended: unpack(pack(r)) returns for every field the value as pack
\* encoded it (the record's value, else the default): an integer modulo
\* 2^(8*width), a FixArray value cut or right-padded with the fill byte to
\* size, a variable payload unchanged when its length and offset fit 16 bits.
C5_RoundTripEncoded ==
    RoundTrip =>
        \A i \in 1..Len(FieldsOfStruct(last.struct)) :
            LET f == FieldsOfStruct(last.struct)[i]
            IN  (f.s.t = "VarArray"
                   => FitsSlot(FieldsOfStruct(last.struct), skip, PackedArg, i))
                => Unpacked[f.name]
                     = Encoded(f, Get(PackedArg, f.name, f.default))

\* a round trip of a record with a short FixArray value and an integer
\* wider than its field
C5_Witness ==
    /\ RoundTrip
    /\ "optionID" \in DOMAIN PackedArg
    /\ PackedArg["optionID"] = I(70000)
    /\ Unpacked["optionID"] = I(4464)
    /\ PackedArg["serialStringUtf8Usb"] = B(<<65, 66>>)
    /\ Len(Unpacked["serialStringUtf8Usb"].b) = 34

\* the positions of the variable fields of a table
VarFields(fields) == { i \in 1..Len(fields) : fields[i].s.t = "VarArray" }

\* C6 as stated: every variable field's payload returned by unpack equals
\* exactly the byte sequence passed to pack for that field.
C6_VarPayloadExact ==
    RoundTrip =>
        \A i \in VarFields(FieldsOfStruct(last.struct)) :
            LET f == FieldsOfStruct(last.struct)[i]
            IN  Unpacked[f.name].b = Get(PackedArg, f.name, f.default).b

\* C6 amended: every variable field whose payload length and tail offset
\* are below 65536 is returned by unpack exactly as it was passed to pack,
\* zero-length payloads and payloads holding the pad bytes included.
C6_VarPayloadExactInSlot ==
    RoundTrip =>
        \A i \in VarFields(FieldsOfStruct(last.struct)) :
            LET f == FieldsOfStruct(last.struct)[i]
            IN  FitsSlot(FieldsOfStruct(last.struct), skip, PackedArg, i)
                => Unpacked[f.name].b = Get(PackedArg, f.name, f.default).b

\* a round trip with a payload that holds the pad bytes 0xFF and 0x00, an
\* empty payload and, the device structs being constructed, offsets that
\* count from the end of the fixed region
C6_Witness ==
    /\ RoundTrip
    /\ skip = StructSize(FieldsOfStruct(last.struct))
    /\ "usbDeviceDescriptor" \in DOMAIN PackedArg
    /\ PackedArg["usbDeviceDescriptor"] = B(<<255, 0, 18>>)
    /\ Unpacked["usbDeviceDescriptor"] = B(<<255, 0, 18>>)
    /\ PackedArg["usbConfigurationDescriptor"] = B(<<>>)
    /\ Unpacked["usbConfigurationDescriptor"] = B(<<>>)

\* one byte of a buffer that isvalid accepted has been changed
TamperedValid ==
    /\ last.op = "tamper"
    /\ isvalid(FieldsOfStruct(last.struct), skip, PackedOut) = "True"

\* C7 as stated: changing any single byte of a finalized buffer makes
\* isvalid return false.
C7_AnyByteDetected ==
    last.op = "tamper"
        => isvalid(FieldsOfStruct(last.struct), skip, Blob) = "False"

\* C7 amended: in a finalized buffer that isvalid accepts, changing a single
\* byte of the cookie, of the checksum field or at or after the offset of
\* 'length' makes isvalid return false; changing a byte between the cookie
\* and the checksum field (version, configLockKey, serialStringUtf8Usb)
\* leaves isvalid true.
C7_TamperDetectedWhereCovered ==
    TamperedValid =>
        LET fields == FieldsOfStruct(last.struct)
            at     == last.pos - 1
        IN  IF at < OffsetOf(fields, "version")
               \/ at >= OffsetOf(fields, "checksum")
            THEN isvalid(fields, skip, Blob) = "False"
            ELSE isvalid(fields, skip, Blob) = "True"

\* a byte of the tail region of a valid buffer was changed and isvalid
\* returns false
C7_Witness ==
    /\ TamperedValid
    /\ last.pos > StructSize(FieldsOfStruct(last.struct))
    /\ isvalid(FieldsOfStruct(last.struct), skip, Blob) = "False"

Items == LoadItems(items)

\* some field of the table has no entry in dict and no default
MissingField(fields, dict) ==
    \E i \in 1..Len(fields) :
        fields[i].name \notin DOMAIN dict /\ fields[i].default = None

\* C11: when the record has no entry for a field whose default is None,
\* pack fails with an error and returns no buffer, whatever the type of
\* the field (integer, fixed array, variable array).
C11_MissingFieldFails ==
    [][(/\ last'.op = "pack"
        /\ MissingField(FieldsOfStruct(last'.struct), Items))
       => (~last'.ok /\ blob' = blob /\ packed' = packed)]_vars

\* pack was called with a record that lacks only the variable array
\* appLaunchBundleID, and failed
C11_Witness ==
    /\ last.op = "pack"
    /\ ~last.ok
    /\ DOMAIN Items = DOMAIN BaseItems(cp2614_fields) \ {"appLaunchBundleID"}
    /\ MissingField(FieldsOfStruct(last.struct), Items)

\* dict without the entries whose value is None
DropNone(dict) == [n \in { m \in DOMAIN dict : dict[m] # None } |-> dict[n]]

\* C12: an entry whose key is present with the value None means "use the
\* default": pack returns what it returns for the record without that key.
C12_NoneMeansDefault ==
    last.op = "pack" =>
        LET expected == ConfigStructPack(FieldsOfStruct(last.struct), skip,
                                         DropNone(Items))
        IN  /\ last.ok = expected.ok
            /\ last.ok => Blob = expected.buf

\* every value pack uses has the Python type of its field: an integer for
\* the integer types, a byte string for the arrays
WellTyped(fields, dict) ==
    \A i \in 1..Len(fields) :
        Get(dict, fields[i].name, fields[i].default).k
          = (IF fields[i].s.t \in {"FixArray", "VarArray"}
             THEN "bytes" ELSE "int")

\* the big-endian bytes of value mod 2^(8 * width), width 1, 2 or 4
LowOrderBytes(width, value) ==
    CASE width = 1 -> << value.n % 256 >>
      [] width = 2 -> << (value.n \div 256) % 256, value.n % 256 >>
      [] width = 4 -> << value.h % 256, (value.n \div 65536) % 256,
                         (value.n \div 256) % 256, value.n % 256 >>

\* C13: an integer wider than its field is not fatal for any of the three
\* widths: pack goes on and the field holds value mod 2^(8 * width).
C13_IntegersTruncated ==
    (last.op = "pack" /\ WellTyped(FieldsOfStruct(last.struct), Items)) =>
        /\ last.ok
        /\ \A i \in 1..Len(FieldsOfStruct(last.struct)) :
              LET f   == FieldsOfStruct(last.struct)[i]
                  off == SizeOfFirst(FieldsOfStruct(last.struct), i - 1)
              IN  f.s.t \in {"UByte", "UShortBE", "UIntBE"} =>
                      Slice(Blob, off, off + f.s.size)
                        = LowOrderBytes(f.s.size,
                                        Get(Items, f.name, f.default))

(***************************************************************************)
(* FixArray by itself: pack_into and unpack_from called on a FixArray      *)
(* object with a buffer that holds the field's slot, as ConfigStruct.pack  *)
(* and ConfigStruct.unpack of a whole buffer call them.                    *)
(***************************************************************************)
structVars == <<skip, structs, items, blob, unpacked, packed, last>>

\* the byte strings handed to pack_into: shorter than, as long as and
\* longer than the field, with and without the fill bytes
FixValues ==
    { [i \in 1..n |-> 64 + i] : n \in 0..(MaxFixSize + 1) }
    \cup { <<255>>, <<0, 255>> }

\* FixArray(size, fill), a buffer, an offset with the slot inside the
\* buffer, and a value
FixCalls ==
    { [NoDirectCall EXCEPT !.size = size, !.fill = fill, !.buf = buf,
                           !.offset = offset, !.value = value] :
        size \in 1..MaxFixSize, fill \in {255, 0},
        buf \in { [i \in 1..n |-> 100 + i] : n \in 1..(MaxFixSize + 2) },
        offset \in 0..(MaxFixSize + 1), value \in FixValues }

FixArrayInit ==
    /\ NoTree
    /\ skip = 0 /\ structs = {} /\ items = <<>> /\ blob = <<>>
    /\ unpacked = <<>> /\ last = NoCall
    /\ packed = [by |-> "none", arg |-> <<>>, out |-> <<>>]
    /\ call \in { c \in FixCalls : c.offset + c.size <= Len(c.buf) }
    /\ enc = NoEnc

\* FixArray(size, fill).pack_into(buf, offset, value); out is buf afterwards
FixArrayPackIntoCall ==
    /\ call.op = "none"
    /\ LET r == FixArrayPackInto(FixArray(call.size, call.fill), call.buf,
                                 call.offset, B(call.value))
       IN  /\ r.ok
           /\ call' = [call EXCEPT !.op = "pack_into", !.out = r.buf]
    /\ UNCHANGED <<treeVars, structVars, enc>>

\* out = FixArray(size, fill).unpack_from(buf, offset)
FixArrayUnpackFromCall ==
    /\ call.op = "none"
    /\ LET r == FixArrayUnpackFrom(FixArray(call.size, call.fill), call.buf,
                                   call.offset)
       IN  /\ r.ok
           /\ call' = [call EXCEPT !.op = "unpack_from", !.out = r.v.b]
    /\ UNCHANGED <<treeVars, structVars, enc>>

FixArrayNext == FixArrayPackIntoCall \/ FixArrayUnpackFromCall

SpecFixArray == FixArrayInit /\ [][FixArrayNext]_vars

\* C14: FixArray(size, fill).pack_into writes exactly size bytes for every
\* length of the value: its first size bytes when it is longer, the value
\* followed by fill bytes when it is shorter; no byte outside
\* [offset, offset+size) changes and the buffer keeps its length;
\* unpack_from returns exactly the size bytes of the slot.
C14_FixArrayExactlySize ==
    /\ call.op = "pack_into" =>
          /\ Len(call.out) = Len(call.buf)
          /\ \A i \in 1..Len(call.buf) :
                call.out[i] =
                    IF i <= call.offset \/ i > call.offset + call.size
                    THEN call.buf[i]
                    ELSE IF i - call.offset <= Len(call.value)
                         THEN call.value[i - call.offset]
                         ELSE call.fill
    /\ call.op = "unpack_from" =>
          /\ Len(call.out) = call.size
          /\ \A j \in 1..call.size : call.out[j] = call.buf[call.offset + j]

\* pack_into was called with a value longer than the field, on a slot that
\* has bytes before and after it
C14_Witness ==
    /\ call.op = "pack_into"
    /\ Len(call.value) > call.size
    /\ call.offset > 0
    /\ call.offset + call.size < Len(call.buf)
    /\ call.out[call.offset + call.size + 1] = call.buf[call.offset + call.size + 1]

C16_IsvalidTotal ==
    last.op \in {"pack", "tamper", "truncate"} =>
        isvalid(FieldsOfStruct(last.struct), skip, Blob) \in {"True", "False"}

\* unpack_from of field i reads positions past the end of buf: the field's
\* own bytes, or the payload that the slot of a variable field points at
ReadsPastEnd(fields, sk, buf, i) ==
    LET off == SizeOfFirst(fields, i - 1)
    IN  \/ off + fields[i].s.size > Len(buf)
        \/ /\ fields[i].s.t = "VarArray"
           /\ off + 4 <= Len(buf)
           /\ StoredU16(buf, off) + sk + StoredU16(buf, off + 2) > Len(buf)

\* C17: whenever unpack would read a fixed field or a variable payload at
\* positions past the end of the buffer, unpack fails with an error, for
\* every field type; it returns no shortened or filled-in value.
C17_ReadPastEndFails ==
    (/\ last.op = "unpack"
     /\ \E i \in 1..Len(FieldsOfStruct(last.struct)) :
            ReadsPastEnd(FieldsOfStruct(last.struct), skip, Blob, i))
    => ~last.ok

\* C18 as stated: add_child is legal on container variants only; on any
\* other variant the call fails and the node's children list stays as it is.
C18_OnlyContainers ==
    [][\A p \in Nodes, c \in Nodes :
          (add_child(p, c) /\ kind[p] \notin Containers)
              => children'[p] = children[p]]_vars

\* C18 amended: add_child succeeds on a node of every variant: whatever the
\* class of p, the call p.add_child(c) with a node c that is not yet in a
\* tree appends c at the end of p's children list.
C18_AnyVariantTakesChild ==
    \A p \in Constructed, c \in Constructed :
        (p \notin Descendants(children, c) /\ Parents(c) = {}) =>
            ENABLED (add_child(p, c)
                     /\ children'[p] = Append(children[p], c))

\* an EndpointDescriptor has received a child, as ep.add_child(csep) in
\* AudioStreamingSubtree gives
C18_Witness ==
    \E p \in Constructed :
        kind[p] = "EndpointDescriptor" /\ Len(children[p]) = 1

\* bDescriptorType of a class
DescriptorTypeOf(cls) ==
    CASE cls = "DeviceDescriptor"           -> DEVICE
      [] cls = "ConfigurationDescriptor"    -> CONFIGURATION
      [] cls = "InterfaceDescriptor"        -> INTERFACE
      [] cls \in {"EndpointDescriptor", "AudioEndpointDescriptor"} -> ENDPOINT
      [] cls = "ClassSpecificAudioEndpoint" -> CS_ENDPOINT
      [] cls = "HidDescriptor"              -> HID
      [] OTHER                              -> CS_INTERFACE

\* C19: in every node of every variant, whatever the constructor arguments
\* were, byte 0 of the own header is the number of bytes of that header and
\* byte 1 is the variant's descriptor type, also after any add_child.
C19_LengthAndTypeBytes ==
    \A n \in Constructed :
        /\ desc_array[n][1] = Len(desc_array[n])
        /\ desc_array[n][2] = DescriptorTypeOf(kind[n])

\* the bytes of the children s[1..i] of a node, one serialization after
\* the other
RECURSIVE ChildBytesLen(_, _)
ChildBytesLen(s, i) ==
    IF i = 0 THEN 0
    ELSE ChildBytesLen(s, i - 1) + Len(get_bytearray(s[i]))

\* the serialization of n is its header, then the serialization of each
\* child at the place that the children before it leave
OwnHeaderThenChildren(n) ==
    LET out == get_bytearray(n)
        h   == Len(desc_array[n])
        s   == children[n]
    IN  /\ Len(out) = h + ChildBytesLen(s, Len(s))
        /\ SubSeq(out, 1, h) = desc_array[n]
        /\ \A i \in 1..Len(s) :
              SubSeq(out, h + ChildBytesLen(s, i - 1) + 1,
                          h + ChildBytesLen(s, i))
                  = get_bytearray(s[i])

\* C20: get_bytearray() of a node is the node's own header followed by
\* get_bytearray() of each child in insertion order; the bytes of a child
\* that add_child appends come after everything the parent serialized
\* before, so a later child never precedes an earlier one; and a
\* get_bytearray() call changes no node.
C20_PreOrder ==
    /\ [](\A n \in Constructed : OwnHeaderThenChildren(n))
    /\ [](call.op = "get_bytearray" =>
             /\ OwnHeaderThenChildren(call.node)
             /\ call.out = get_bytearray(call.node))
    /\ [][\A p \in Nodes, c \in Nodes :
            add_child(p, c) =>
                LET old == get_bytearray(p)
                    new == get_bytearray_of(desc_array', children', p)
                    h   == Len(desc_array[p])
                IN  /\ Len(new) = Len(old) + Len(get_bytearray(c))
                    /\ SubSeq(new, Len(old) + 1, Len(new)) = get_bytearray(c)
                    /\ SubSeq(new, h + 1, Len(old))
                          = SubSeq(old, h + 1, Len(old))]_vars
    /\ [][call'.op = "get_bytearray" /\ call.op = "none" =>
            /\ kind' = kind
            /\ desc_array' = desc_array
            /\ children' = children]_vars

\* get_bytearray() was called on a node with two children of different
\* bytes
C20_Witness ==
    /\ call.op = "get_bytearray"
    /\ Len(children[call.node]) = 2
    /\ get_bytearray(children[call.node][1])
          # get_bytearray(children[call.node][2])

\* C21: the schemas are immutable after construction and share no mutable
\* state: a step that constructs, packs with or unpacks with a struct
\* changes nothing that a struct constructed earlier reads (the skip of
\* the variable arrays of its field table).
C21_SchemasShareNothing ==
    [][structs # {} => skip' = skip]_vars

(***************************************************************************)
(* encoder.py / decoder.py: the GPIO function of a pin.  The input          *)
(* dictionary and the decoded dictionary hold strings; a string is a       *)
(* sequence of characters.                                                 *)
(***************************************************************************)
HexDigits == <<"0", "1", "2", "3", "4", "5", "6", "7",
               "8", "9", "A", "B", "C", "D", "E", "F">>

\* "%X" % n
RECURSIVE FormatX(_)
FormatX(n) ==
    IF n < 16 THEN <<HexDigits[n + 1]>>
    ELSE Append(FormatX(n \div 16), HexDigits[(n % 16) + 1])

\* "0x%02X" % n
Format02X(n) ==
    LET digits == FormatX(n)
    IN  <<"0", "x">> \o (IF Len(digits) < 2 THEN <<"0">> ELSE <<>>) \o digits

\* str(n)
RECURSIVE FormatD(_)
FormatD(n) ==
    IF n < 10 THEN <<HexDigits[n + 1]>>
    ELSE Append(FormatD(n \div 10), HexDigits[(n % 10) + 1])

DigitValue(c) == (CHOOSE i \in 1..16 : HexDigits[i] = c) - 1

RECURSIVE ParseDigits(_, _)
ParseDigits(str, base) ==
    IF str = <<>> THEN 0
    ELSE ParseDigits(SubSeq(str, 1, Len(str) - 1), base) * base
         + DigitValue(str[Len(str)])

\* int(str, base=0) of a string with the prefix 0x or of a decimal string
IntBase0(str) ==
    IF Len(str) > 2 /\ SubSeq(str, 1, 2) = <<"0", "x">>
    THEN ParseDigits(SubSeq(str, 3, Len(str)), 16)
    ELSE ParseDigits(str, 10)

\* the key gpio_NN_function is the pin number NN
Pins == 0..15

RECURSIVE encode_gpio_mask_from(_, _)
\* encode_gpio_mask: the bits of the pins g..15
encode_gpio_mask_from(d, g) ==
    IF g > 15 THEN 0
    ELSE (IF IntBase0(d[g]) = 0 THEN 2 ^ g ELSE 0)
         + encode_gpio_mask_from(d, g + 1)

encode_gpio_mask(d) == encode_gpio_mask_from(d, 0)

\* encode_alt_functions that offsets every value other than 0
encode_alt_functions_all_offset(d) ==
    [ i \in 1..8 |->
        LET gpio_altsel == IntBase0(d[i - 1])
        IN  IF gpio_altsel # 0 THEN gpio_altsel - 1 ELSE gpio_altsel ]

\* encode_alt_functions: byte g of the array is element g + 1
encode_alt_functions(d) ==
    [ i \in 1..8 |->
        LET gpio_altsel == IntBase0(d[i - 1])
        IN  IF gpio_altsel # 0 /\ gpio_altsel < 128
            THEN gpio_altsel - 1 ELSE gpio_altsel ]

\* decode_gpio_function(out_dict, num)
decode_gpio_function(out_dict, num) ==
    LET gpio_mask == out_dict.pinGpioMask
        alt_fn    == out_dict.gpioAltFunctions
        fn == IF (gpio_mask \div (2 ^ num)) % 2 = 1 THEN 0
              ELSE IF num > 7 THEN 1
              ELSE IF alt_fn[num + 1] < 128 THEN alt_fn[num + 1] + 1
              ELSE alt_fn[num + 1]
    IN  Format02X(fn)

\* the function values of a byte
FunctionValues == 0..255

\* the input dictionaries: one pin of 0..7 has the value v, written in hex
\* or in decimal, the other pins have one value
GpioDicts ==
    { [ g \in Pins |-> IF g = p THEN (IF hex THEN Format02X(v) ELSE FormatD(v))
                       ELSE Format02X(o) ] :
        p \in 0..7, v \in FunctionValues, hex \in BOOLEAN, o \in {0, 129} }

\* the caller holds one of the input dictionaries; nothing else exists
EncoderInit(dicts) ==
    /\ NoTree
    /\ skip = 0 /\ structs = {} /\ items = <<>> /\ blob = <<>>
    /\ unpacked = <<>> /\ last = NoCall
    /\ packed = [by |-> "none", arg |-> <<>>, out |-> <<>>]
    /\ call = NoDirectCall
    /\ \E d \in dicts : enc = [NoEnc EXCEPT !.d = d]

GpioInit == EncoderInit(GpioDicts)

\* pinGpioMask = encode_gpio_mask(d, _);
\* gpioAltFunctions = encode_alt_functions(d, _)
EncodeGpio ==
    /\ enc.op = "none"
    /\ enc' = [enc EXCEPT !.op = "encode",
                          !.out = [pinGpioMask |-> encode_gpio_mask(enc.d),
                                   gpioAltFunctions |->
                                       encode_alt_functions(enc.d)]]
    /\ UNCHANGED <<treeVars, structVars, call>>

\* back = decode_gpio_function(out, num)
DecodeGpio(num) ==
    /\ enc.op = "encode"
    /\ enc' = [enc EXCEPT !.op = "decode",
                          !.back = [num |-> num,
                                    fn |-> decode_gpio_function(enc.out, num)]]
    /\ UNCHANGED <<treeVars, structVars, call>>

GpioNext == EncodeGpio \/ \E num \in Pins : DecodeGpio(num)

SpecGpio == GpioInit /\ [][GpioNext]_vars

\* C22: for every pin 0..7 and every function value v in 0..255,
\* decode_gpio_function applied to the mask and the alternate functions
\* that the two encoders made gives v back (as the string "0x%02X" % v);
\* 0 and every value from 0x80 are stored as they are, every value
\* 1..0x7F is stored as v - 1.
C22_GpioFunctionRoundTrip ==
    /\ enc.op \in {"encode", "decode"} =>
          \A g \in 0..7 :
              LET v == IntBase0(enc.d[g])
              IN  enc.out.gpioAltFunctions[g + 1] =
                      IF v = 0 \/ v >= 128 THEN v ELSE v - 1
    /\ (enc.op = "decode" /\ enc.back.num <= 7) =>
          /\ IntBase0(enc.back.fn) = IntBase0(enc.d[enc.back.num])
          /\ enc.back.fn = Format02X(IntBase0(enc.d[enc.back.num]))

\* the function 0x80, a button, of a pin below 8 was encoded and decoded
C22_Witness ==
    /\ enc.op = "decode"
    /\ enc.back.num = 3
    /\ enc.d[3] = <<"1", "2", "8">>
    /\ enc.out.gpioAltFunctions[4] = 128
    /\ enc.back.fn = <<"0", "x", "8", "0">>

(***************************************************************************)
(* encoder_2615.py: the IO options byte.                                   *)
(***************************************************************************)
\* val.lower() of the strings the dictionaries hold
Lower(val) ==
    CASE val = "Yes"  -> "yes"
      [] val = "TRUE" -> "true"
      [] val = "On"   -> "on"
      [] val = "No"   -> "no"
      [] OTHER        -> val

\* encoder.strtobool
strtobool(val) == Lower(val) \in {"y", "yes", "t", "true", "on", "1"}

\* is_rev_a01: 'A01' in d['device']
is_rev_a01(d) == d.device \in {"CP2615-A01", "A01"}

\* a | b of two bytes
RECURSIVE BitOr(_, _)
BitOr(a, b) ==
    IF a = 0 THEN b
    ELSE IF b = 0 THEN a
    ELSE (IF a % 2 = 1 \/ b % 2 = 1 THEN 1 ELSE 0)
         + 2 * BitOr(a \div 2, b \div 2)

\* encode_io_options without the last assignment
encode_io_options_flags(d) ==
    LET serial_protocol_enabled == strtobool(d.serial_protocol_enabled)
        io_protocol_enabled     == strtobool(d.io_protocol_enabled)
        v1 == IF is_rev_a01(d) THEN 16 ELSE 2
        v2 == BitOr(v1, IF serial_protocol_enabled THEN 12 ELSE 0)
        v3 == BitOr(v2, IF io_protocol_enabled THEN 16 ELSE 0)
    IN  v3

\* encode_io_options(d, _): bit_mask_value after each assignment
encode_io_options(d) ==
    LET serial_protocol_enabled == strtobool(d.serial_protocol_enabled)
        io_protocol_enabled     == strtobool(d.io_protocol_enabled)
        v1 == IF is_rev_a01(d) THEN 16 ELSE 2
        v2 == BitOr(v1, IF serial_protocol_enabled THEN 12 ELSE 0)
        v3 == BitOr(v2, IF io_protocol_enabled THEN 16 ELSE 0)
        v4 == 170
    IN  v4

BoolStrings == {"yes", "Yes", "TRUE", "On", "1", "no", "No", "0", "false"}

IoOptionDicts ==
    [ serial_protocol_enabled : BoolStrings, io_protocol_enabled : BoolStrings,
      device : {"CP2615-A01", "CP2615-A02", "A01"} ]

IoOptionsInit == EncoderInit(IoOptionDicts)

\* ioOptions = encode_io_options(d, _)
EncodeIoOptions ==
    /\ enc.op = "none"
    /\ enc' = [enc EXCEPT !.op = "encode", !.out = encode_io_options(enc.d)]
    /\ UNCHANGED <<treeVars, structVars, call>>

IoOptionsNext == EncodeIoOptions

SpecIoOptions == IoOptionsInit /\ [][IoOptionsNext]_vars

ConstantAtDefault(fields, dict, name) ==
    LET f == fields[IndexOf(fields, name)]
    IN  Encoded(f, Get(dict, name, f.default)) = Encoded(f, f.default)

\* C24 as stated: for every buffer a device struct's pack returned, the
\* round trip test (unpack, delete the computed and constant fields, pack
\* with the same struct) gives the same bytes.
C24_RepackSameBytes ==
    [][last'.op = "repack" => (last'.ok /\ blob' = blob)]_vars

\* C24 amended: the round trip test gives the same bytes when the record
\* that was packed left cookie, endVarMarker and endConfigMarker at their
\* defaults and every variable payload and offset fits its 16-bit slot.
C24_RepackSameBytesForDefaults ==
    [][(/\ last'.op = "repack"
        /\ \A n \in {"cookie", "endVarMarker", "endConfigMarker"} :
              ConstantAtDefault(FieldsOfStruct(last.struct), PackedArg, n)
        /\ \A i \in VarFields(FieldsOfStruct(last.struct)) :
              FitsSlot(FieldsOfStruct(last.struct), skip, PackedArg, i))
       => (last'.ok /\ blob' = blob)]_vars

\* the round trip test ran on a buffer with a variable payload that
\* ConfigStructCP2614 packed from a record without a cookie
C24_Witness ==
    /\ last.op = "repack" /\ last.ok
    /\ last.struct = "ConfigStructCP2614"
    /\ Blob = PackedOut
    /\ Len(Blob) = StructSize(cp2614_fields) + 9
    /\ Slice(Blob, 0, 4) = <<50, 54, 49, 52>>

(***************************************************************************)
(* decoder.py: build_desc_list on the bytes of a descriptor tree.          *)
(***************************************************************************)
RECURSIVE build_desc_list_loop(_, _)
\* the while loop of build_desc_list; with a first byte 0 the loop takes
\* nothing from all_desc and never ends
build_desc_list_loop(all_desc, desc_list) ==
    IF Len(all_desc) = 0 THEN [ends |-> TRUE, list |-> desc_list]
    ELSE LET desc_len == all_desc[1]
             new_desc == Slice(all_desc, 0, desc_len)
         IN  IF desc_len = 0 THEN [ends |-> FALSE, list |-> desc_list]
             ELSE build_desc_list_loop(
                      Slice(all_desc, desc_len, Len(all_desc)),
                      Append(desc_list, new_desc))

\* build_desc_list(all_desc)
build_desc_list(all_desc) == build_desc_list_loop(all_desc, <<>>)

\* the constructor calls of the trees that are cut into descriptors: an
\* audio control interface with its header, terminals and feature units
DescListCtors ==
    { c \in Ctors \cup VariantCtors :
        \/ c.cls \in {"InterfaceDescriptor", "OutputTerminal"}
        \/ c.cls = "AudioControlHeader" /\ c.list # <<>>
        \/ c.cls = "FeatureUnit" /\ c.list # <<>> /\ c.a \in {2, 3} }

\* desc_list = build_desc_list(n.get_bytearray())
BuildDescListCall(n) ==
    /\ kind[n] # "none"
    /\ call.op = "none"
    /\ LET r == build_desc_list(get_bytearray(n))
       IN  call' = [NoDirectCall EXCEPT
                       !.op = IF r.ends THEN "build_desc_list" ELSE "no end",
                       !.node = n, !.buf = get_bytearray(n), !.out = r.list]
    /\ UNCHANGED <<kind, desc_array, children>>
    /\ UNCHANGED <<skip, structs, items, blob, unpacked, packed, last, enc>>

\* a tree is built, serialized and cut into its descriptors
DescListNext ==
    \/ call.op = "none" /\ \E n \in Nodes, c \in DescListCtors : Construct(n, c)
    \/ call.op = "none" /\ \E p \in Nodes, c \in Nodes : add_child(p, c)
    \/ \E n \in Nodes : BuildDescListCall(n)

SpecDescList == TreeInit /\ [][DescListNext]_vars

RECURSIVE PreOrderHeaders(_)
\* the own headers of the nodes of the subtree of n: n first, then the
\* subtrees of its children in insertion order
PreOrderHeaders(n) ==
    LET RECURSIVE kids(_)
        kids(s) == IF s = <<>> THEN <<>>
                   ELSE PreOrderHeaders(Head(s)) \o kids(Tail(s))
    IN  <<desc_array[n]>> \o kids(children[n])

\* C28: for every descriptor tree built from the node constructors and
\* add_child, build_desc_list(tree.get_bytearray()) ends and returns the
\* own headers of the tree's nodes in depth-first insertion order, one
\* list element for each node.
C28_DescListIsPreOrder ==
    call.op \in {"build_desc_list", "no end"} =>
        /\ call.op = "build_desc_list"
        /\ call.out = PreOrderHeaders(call.node)

(***************************************************************************)
(* usb_descriptor.py: the constructors with the arguments that             *)
(* encoder_2615.py passes; each gives desc_array after __init__.           *)
(***************************************************************************)
\* ConfigurationDescriptor.__init__, which ends with compute_total_length()
ConfigurationDescriptor(num_interfaces, config_value, iConf, self_powered, max_power) ==
    LET attrs == IF self_powered THEN 192 ELSE 128
        d == UsbDescriptorInit(CONFIGURATION, 9)
               \o <<0, 0>> \o <<num_interfaces, config_value, iConf>>
               \o <<attrs>> \o <<max_power \div 2>>
    IN  [d EXCEPT ![3] = Len(d) % 256, ![4] = Len(d) \div 256]

\* InterfaceDescriptor.__init__ (iIface=0)
InterfaceDescriptor(if_num, alt, num_eps, if_class, if_subclass, if_protocol) ==
    UsbDescriptorInit(INTERFACE, 9)
      \o <<if_num, alt, num_eps, if_class, if_subclass, if_protocol, 0>>

\* HidDescriptor.__init__ (ver=0x0111, country_code=0)
HidDescriptor(desc_list) ==
    NewDescArray([cls |-> "HidDescriptor", a |-> 0, list |-> desc_list])

\* EndpointDescriptor.__init__
EndpointDescriptor(ep_address, direction, max_packet, xfer_type, sync_type, usage_type, interval) ==
    UsbDescriptorInit(ENDPOINT, 7)
      \o <<BitOr(ep_address, direction)>>
      \o <<BitOr(BitOr(xfer_type, sync_type), usage_type)>>
      \o <<max_packet % 256, max_packet \div 256>>
      \o <<interval>>

\* AudioEndpointDescriptor.__init__
AudioEndpointDescriptor(ep_address, direction, max_packet, xfer_type, sync_type, usage_type, interval, refresh, sync_addr) ==
    [ EndpointDescriptor(ep_address, direction, max_packet, xfer_type,
                         sync_type, usage_type, interval)
        \o <<refresh, sync_addr>>
      EXCEPT ![1] = 9 ]

\* ClassSpecificAudioEndpoint.__init__
ClassSpecificAudioEndpoint(attributes, lock_units, lock_delay) ==
    UsbDescriptorInit(CS_ENDPOINT, 7)
      \o <<1>> \o <<attributes>> \o <<lock_units>>
      \o <<lock_delay % 256, lock_delay \div 256>>

\* AudioControlHeader.__init__ (ver=0x0100)
AudioControlHeader(if_collection) ==
    NewDescArray([cls |-> "AudioControlHeader", a |-> 0,
                  list |-> if_collection])

\* TerminalDescriptor.__init__ (assoc_term=0)
TerminalDescriptor(term_is_input, term_id, term_type) ==
    ClassSpecificAudioDescriptorInit(
        IF term_is_input THEN INPUT_TERMINAL ELSE OUTPUT_TERMINAL,
        IF term_is_input THEN 12 ELSE 9)
      \o <<term_id>> \o <<term_type % 256, term_type \div 256>> \o <<0>>

\* InputTerminal.__init__ (iChan=0, iTerm=0)
InputTerminal(term_id, term_type, num_channels, chan_config) ==
    TerminalDescriptor(TRUE, term_id, term_type)
      \o <<num_channels>> \o <<chan_config % 256, chan_config \div 256>>
      \o <<0, 0>>

\* OutputTerminal.__init__ (iTerm=0)
OutputTerminal(term_id, term_type, source_id) ==
    TerminalDescriptor(FALSE, term_id, term_type) \o <<source_id, 0>>

\* FeatureUnit.__init__ (iFeature=0)
FeatureUnit(unit_id, source_id, control_size, controls) ==
    ClassSpecificAudioDescriptorInit(FEATURE_UNIT,
                                     7 + Len(controls) * control_size)
      \o <<unit_id, source_id, control_size>>
      \o FeatureUnitControls(control_size, controls) \o <<0>>

\* AudioStreamingInterface.__init__
AudioStreamingInterface(terminal_link, format, delay) ==
    ClassSpecificAudioDescriptorInit(AS_GENERAL, 7)
      \o <<terminal_link, delay>> \o <<format % 256, format \div 256>>

\* AudioFormatTypeIDescriptor.__init__
AudioFormatTypeIDescriptor(channels, subframe_size, bit_resolution, sample_freqs) ==
    ClassSpecificAudioDescriptorInit(FORMAT_TYPE, 8 + Len(sample_freqs) * 3)
      \o <<1>> \o <<channels, subframe_size, bit_resolution>>
      \o <<Len(sample_freqs)>> \o SampleFreqBytes(sample_freqs)

(***************************************************************************)
(* The objects one call of encode_config_descriptor makes: object i has     *)
(* the class kind[i], the header da[i] and the children list ch[i]; env     *)
(* gives the object that each Python variable is bound to.  The function   *)
(* body is the sequence of its statements, each either  x = Class(...)  or  *)
(* p.add_child(c).                                                         *)
(***************************************************************************)
NoObjects == [kind |-> <<>>, da |-> <<>>, ch |-> <<>>, env |-> <<>>]

\* x = Class(...): a new object with the header bytes, bound to x
NewObject(h, x, cls, bytes) ==
    [kind |-> Append(h.kind, cls), da |-> Append(h.da, bytes),
     ch |-> Append(h.ch, <<>>), env |-> (x :> (Len(h.da) + 1)) @@ h.env]

\* p.add_child(c) that only appends
AddChildNoRecompute(h, p, c) ==
    [h EXCEPT !.ch = [h.ch EXCEPT ![p] = Append(@, c)]]

\* p.add_child(c) on the objects h
AddChild(h, p, c) ==
    LET ch == [h.ch EXCEPT ![p] = Append(@, c)]
    IN  [h EXCEPT
           !.ch = ch,
           !.da = IF h.kind[p] = "ConfigurationDescriptor"
                  THEN ConfigurationComputeTotalLength(h.da, ch, p)
                  ELSE IF h.kind[p] = "AudioControlHeader"
                  THEN AudioControlHeaderComputeTotalLength(h.da, ch, p)
                  ELSE h.da]

\* the statement  x = Class(...)
New(x, cls, bytes) ==
    [op |-> "new", x |-> x, cls |-> cls, bytes |-> bytes, p |-> "", c |-> ""]

\* the statement  p.add_child(c)
Add(p, c) ==
    [op |-> "add", x |-> "", cls |-> "", bytes |-> <<>>, p |-> p, c |-> c]

\* the statements from the i-th on, executed in order on the objects h; a
\* statement that reads a variable never assigned ends the execution
\* (NameError)
RECURSIVE Execute(_, _, _)
Execute(h, statements, i) ==
    IF i > Len(statements) THEN h
    ELSE LET st == statements[i]
         IN  IF st.op = "new"
             THEN Execute(NewObject(h, st.x, st.cls, st.bytes),
                          statements, i + 1)
             ELSE IF {st.p, st.c} \subseteq DOMAIN h.env
             THEN Execute(AddChild(h, h.env[st.p], h.env[st.c]),
                          statements, i + 1)
             ELSE h

\* x = AudioStreamingSubtree(...): the statements of __init__, self being x
AudioStreamingSubtree(x, if_num, alt, terminal_link, subframe_size, ep_addr, ep_dir, max_packet, sync_type, rates, format_delay, interval, explicit_feedback, implicit_feedback, lock_delay) ==
    LET num_eps == IF explicit_feedback = 0 THEN 1 ELSE 2
        sync_addr == IF ep_dir = 0 /\ explicit_feedback # 0
                     THEN BitOr(explicit_feedback, 128) ELSE 0
        usage == IF ep_dir = 128 /\ implicit_feedback # 0 THEN 32 ELSE 0
        lock_units == IF lock_delay # 0 THEN 1 ELSE 0
    IN  << New(x, "InterfaceDescriptor",
               InterfaceDescriptor(if_num, alt, num_eps, 1, 2, 0)),
           New("asif", "AudioStreamingInterface",
               AudioStreamingInterface(terminal_link, 1, format_delay)),
           New("fmt", "AudioFormatTypeIDescriptor",
               AudioFormatTypeIDescriptor(2, subframe_size,
                                          subframe_size * 8, rates)),
           New("ep", "AudioEndpointDescriptor",
               AudioEndpointDescriptor(ep_addr, ep_dir, max_packet, 1,
                                       sync_type, usage, interval,
                                       0, sync_addr)),
           New("csep", "ClassSpecificAudioEndpoint",
               ClassSpecificAudioEndpoint(1, lock_units, lock_delay)),
           Add("asif", "fmt"),
           Add(x, "asif"),
           Add("ep", "csep"),
           Add(x, "ep") >>
        \o (IF explicit_feedback # 0
            THEN << New("fbep", "AudioEndpointDescriptor",
                        AudioEndpointDescriptor(explicit_feedback, 128, 3,
                                                1, 0, 16, 1, 6, 0)),
                    Add(x, "fbep") >>
            ELSE <<>>)

(***************************************************************************)
(* encoder_2615.py: encode_config_descriptor, in the order of its          *)
(* statements.                                                             *)
(***************************************************************************)
\* int(s) of a decimal string
IntBase10(str) == ParseDigits(str, 10)

\* the HID interface: hid_ifd with hid_desc and hid_ep1, then added to cd
HidInterface ==
    << New("hid_ifd", "InterfaceDescriptor",
           InterfaceDescriptor(0, 0, 1, 3, 0, 0)),
       New("hid_desc", "HidDescriptor", HidDescriptor(<<HIDREPORT, 39>>)),
       New("hid_ep1", "EndpointDescriptor",
           EndpointDescriptor(1, 128, 2, 3, 0, 0, 20)),
       Add("hid_ifd", "hid_desc"),
       Add("hid_ifd", "hid_ep1"),
       Add("cd", "hid_ifd") >>

\* iop_alt1 / iop_alt2: a bulk interface with its two endpoints, added to cd
IopBulkInterface(x, alt) ==
    << New(x, "InterfaceDescriptor",
           InterfaceDescriptor(1, alt, 2, 255, 21, 1)),
       New("ep_in", "EndpointDescriptor",
           EndpointDescriptor(2, 128, 64, 2, 0, 0, 0)),
       New("ep_out", "EndpointDescriptor",
           EndpointDescriptor(2, 0, 64, 2, 0, 0, 0)),
       Add(x, "ep_in"),
       Add(x, "ep_out"),
       Add("cd", x) >>

\* the IOP interfaces: alt 0 always, alt 1 and alt 2 by the protocol flags
IopInterfaces(serial_protocol_enabled, io_protocol_enabled) ==
    << New("iop_alt0", "InterfaceDescriptor",
           InterfaceDescriptor(1, 0, 0, 255, 21, 1)),
       Add("cd", "iop_alt0") >>
    \o (IF serial_protocol_enabled \/ io_protocol_enabled
        THEN IopBulkInterface("iop_alt1", 1) ELSE <<>>)
    \o (IF io_protocol_enabled
        THEN IopBulkInterface("iop_alt2", 2) ELSE <<>>)

\* the audio control interface with its header, terminals and feature units
AudioControlInterface(audio_if, audio_out_is_enabled, audio_in_is_enabled, enable_fu, out_term_val, in_term_val) ==
    LET ifaces == IF audio_if = 5 THEN <<3, 4>> ELSE <<3>>
        out_term_type == IF out_term_val = 1 THEN 769
                         ELSE IF out_term_val = 2 THEN 1539 ELSE 770
        in_term_type == IF in_term_val = 1 THEN 513 ELSE 1539
    IN  << New("audio_ctrl_if", "InterfaceDescriptor",
               InterfaceDescriptor(2, 0, 0, 1, 1, 0)),
           New("audio_ctrl_hdr", "AudioControlHeader",
               AudioControlHeader(ifaces)) >>
        \o (IF audio_out_is_enabled
            THEN << New("hp_input_term", "InputTerminal",
                        InputTerminal(1, 257, 2, 3)),
                    Add("audio_ctrl_hdr", "hp_input_term"),
                    New("hp_output_term", "OutputTerminal",
                        OutputTerminal(2, out_term_type,
                                       IF enable_fu THEN 3 ELSE 1)),
                    Add("audio_ctrl_hdr", "hp_output_term") >>
                 \o (IF enable_fu
                     THEN << New("play_fu", "FeatureUnit",
                                 FeatureUnit(3, 1, 2, <<1, 2, 2>>)),
                             Add("audio_ctrl_hdr", "play_fu") >>
                     ELSE <<>>)
            ELSE <<>>)
        \o (IF audio_in_is_enabled
            THEN << New("line_input_term", "InputTerminal",
                        InputTerminal(4, in_term_type, 2, 3)),
                    Add("audio_ctrl_hdr", "line_input_term"),
                    New("line_output_term", "OutputTerminal",
                        OutputTerminal(5, 257, IF enable_fu THEN 6 ELSE 4)),
                    Add("audio_ctrl_hdr", "line_output_term") >>
                 \o (IF enable_fu
                     THEN << New("line_fu", "FeatureUnit",
                                 FeatureUnit(6, 4, 2, <<1, 0, 0>>)),
                             Add("audio_ctrl_hdr", "line_fu") >>
                     ELSE <<>>)
            ELSE <<>>)
        \o << Add("audio_ctrl_if", "audio_ctrl_hdr"),
              Add("cd", "audio_ctrl_if") >>

\* the streaming OUT interface 3: alt 0, alt 1 and (for 4 and 7) alt 2
StreamingOut(audio_if, audio_in_is_enabled, use_async, sync_type, audio_rates, lock_delay) ==
    LET explicit_fb == IF use_async /\ ~audio_in_is_enabled THEN 3 ELSE 0
        implicit_fb == IF use_async /\ audio_in_is_enabled THEN 3 ELSE 0
    IN  << New("audio_out_alt0", "InterfaceDescriptor",
               InterfaceDescriptor(3, 0, 0, 1, 2, 0)),
           Add("cd", "audio_out_alt0") >>
        \o (IF audio_if \in {3, 4, 5}
            THEN AudioStreamingSubtree("audio_out_alt1", 3, 1, 1, 2, 3, 0,
                     IF use_async THEN 196 ELSE 200, sync_type, audio_rates,
                     2, 1, explicit_fb, implicit_fb, lock_delay)
            ELSE << New("audio_out_alt1", "InterfaceDescriptor",
                        InterfaceDescriptor(3, 1, 0, 1, 2, 0)) >>)
        \o << Add("cd", "audio_out_alt1") >>
        \o (IF audio_if \in {4, 7}
            THEN AudioStreamingSubtree("audio_out_alt2", 3, 2, 1, 3, 3, 0,
                     IF use_async THEN 294 ELSE 288, sync_type, audio_rates,
                     2, 1, IF use_async THEN 2 ELSE 0, 0, lock_delay)
                 \o << Add("cd", "audio_out_alt2") >>
            ELSE <<>>)

\* the streaming IN interface in_if: alt 0, alt 1 and (for 2 and 6) alt 2
StreamingIn(audio_if, audio_out_is_enabled, use_async, sync_type, audio_rates, lock_delay) ==
    LET in_if == IF audio_out_is_enabled THEN 4 ELSE 3
        implicit_fb == IF use_async /\ audio_out_is_enabled THEN 3 ELSE 0
    IN  << New("audio_in_alt0", "InterfaceDescriptor",
               InterfaceDescriptor(in_if, 0, 0, 1, 2, 0)),
           Add("cd", "audio_in_alt0") >>
        \o (IF audio_if \in {1, 2, 5}
            THEN AudioStreamingSubtree("audio_in_alt1", in_if, 1, 5, 2, 3,
                     128, IF use_async THEN 196 ELSE 200, sync_type,
                     audio_rates, 2, 1, 0, implicit_fb, lock_delay)
            ELSE << New("audio_in_alt1", "InterfaceDescriptor",
                        InterfaceDescriptor(in_if, 1, 0, 1, 2, 0)) >>)
        \o << Add("cd", "audio_in_alt1") >>
        \o (IF audio_if \in {2, 6}
            THEN AudioStreamingSubtree("audio_in_alt2", in_if, 2, 5, 3, 3,
                     128, IF use_async THEN 294 ELSE 288, sync_type,
                     audio_rates, 2, 1, 0, 0, lock_delay)
                 \o << Add("cd", "audio_in_alt2") >>
            ELSE <<>>)

\* the statements that encode_config_descriptor(d, _) executes
ConfigDescriptorStatements(d) ==
    LET audio_if == IntBase10(d.audio_if)
        num_interfaces == 2 + (IF audio_if # 0 THEN 2 ELSE 0)
                            + (IF audio_if = 5 THEN 1 ELSE 0)
        audio_out_is_enabled == audio_if \in {3, 4, 5, 7}
        audio_in_is_enabled  == audio_if \in {1, 2, 5, 6}
        sample_rate == IntBase10(d.sample_rate)
        audio_rates == (IF sample_rate \in {0, 2} THEN <<48000>> ELSE <<>>)
                    \o (IF sample_rate \in {1, 2} THEN <<44100>> ELSE <<>>)
        use_async == strtobool(d.use_async)
        sync_type == IF use_async THEN 4 ELSE 12
        lock_delay == IF use_async THEN 0 ELSE 1
    IN  << New("cd", "ConfigurationDescriptor",
               ConfigurationDescriptor(num_interfaces, 1, 4,
                                       strtobool(d.self_powered),
                                       IntBase10(d.max_current_ma))) >>
        \o HidInterface
        \o IopInterfaces(strtobool(d.serial_protocol_enabled),
                         strtobool(d.io_protocol_enabled))
        \o (IF audio_if > 0
            THEN AudioControlInterface(audio_if, audio_out_is_enabled,
                     audio_in_is_enabled, strtobool(d.enable_fu),
                     IntBase10(d.output_terminal),
                     IntBase10(d.input_terminal))
                 \o (IF audio_out_is_enabled
                     THEN StreamingOut(audio_if, audio_in_is_enabled,
                              use_async, sync_type, audio_rates, lock_delay)
                     ELSE <<>>)
                 \o (IF audio_in_is_enabled
                     THEN StreamingIn(audio_if, audio_out_is_enabled,
                              use_async, sync_type, audio_rates, lock_delay)
                     ELSE <<>>)
            ELSE <<>>)

\* encode_config_descriptor: cd.get_bytearray()
encode_config_descriptor(d) ==
    LET h == Execute(NoObjects, ConfigDescriptorStatements(d), 1)
    IN  get_bytearray_of(h.da, h.ch, h.env["cd"])

(***************************************************************************)
(* decoder.py: decode_audio_if and its helpers.  desc[i] of the source is   *)
(* desc[i + 1] here.                                                       *)
(***************************************************************************)
\* b & 0x0C of a byte
And0C(b) == ((b \div 4) % 4) * 4

\* the loop of _build_ep_list from descriptor i on
RECURSIVE build_ep_list_from(_, _, _, _, _)
build_ep_list_from(desc_list, i, if_num, if_alt, ep_list) ==
    IF i > Len(desc_list) THEN ep_list
    ELSE LET desc == desc_list[i]
         IN  IF desc[1] = 9 /\ desc[2] = 4 /\ desc[6] = 1 /\ desc[7] = 2
             THEN build_ep_list_from(desc_list, i + 1, desc[3], desc[4],
                                     ep_list)
             ELSE IF desc[1] = 9 /\ desc[2] = 5
             THEN build_ep_list_from(desc_list, i + 1, if_num, if_alt,
                      Append(ep_list, <<if_num, if_alt, desc[3],
                                        And0C(desc[4])>>))
             ELSE build_ep_list_from(desc_list, i + 1, if_num, if_alt,
                                     ep_list)

\* _build_ep_list that takes every endpoint descriptor, of any length
build_ep_list_any_endpoint(desc_list) ==
    LET eps == SelectSeq(desc_list, LAMBDA desc : desc[2] = 5)
    IN  [i \in 1..Len(eps) |-> <<0, 0, eps[i][3], And0C(eps[i][4])>>]

\* _build_ep_list(desc_list)
build_ep_list(desc_list) == build_ep_list_from(desc_list, 1, 0, 0, <<>>)

\* _get_matching_eps(ep_list, alt, addr)
get_matching_eps(ep_list, alt, addr) ==
    SelectSeq(ep_list, LAMBDA ep : ep[2] = alt /\ ep[3] = addr)

\* the elif chain of decode_audio_if on the endpoint list
AudioIfOfEndpoints(ep_list) ==
    LET ep103 == get_matching_eps(ep_list, 1, 3)
        ep183 == get_matching_eps(ep_list, 1, 131)
        ep203 == get_matching_eps(ep_list, 2, 3)
        ep283 == get_matching_eps(ep_list, 2, 131)
        ep282 == get_matching_eps(ep_list, 2, 130)
        n     == Len(ep_list)
    IN  IF n = 0 THEN 0
        ELSE IF n = 1 /\ Len(ep183) = 1 THEN 1
        ELSE IF n = 2 /\ Len(ep183) = 1 /\ Len(ep283) = 1 THEN 2
        ELSE IF \/ n = 1 /\ Len(ep103) = 1
                \/ n = 2 /\ Len(ep183) = 1 /\ ep183[1][1] = 3 THEN 3
        ELSE IF (n = 2 \/ n = 4) /\ Len(ep103) = 1 /\ Len(ep203) # 0 THEN 4
        ELSE IF n = 2 /\ Len(ep103) = 1 /\ Len(ep183) = 1
                /\ ep103[1][1] = 3 /\ ep183[1][1] = 4 THEN 5
        ELSE IF n = 1 /\ Len(ep283) = 1 THEN 6
        ELSE IF \/ n = 1 /\ Len(ep203) = 1
                \/ n = 2 /\ Len(ep203) = 1 /\ Len(ep282) = 1 THEN 7
        ELSE 0

\* decode_audio_if(out_dict, _): str(audio_if), with the endpoint list it
\* was decided on; ends is FALSE when build_desc_list does not return
decode_audio_if(out_dict) ==
    LET r == build_desc_list(out_dict.usbConfigurationDescriptor)
        ep_list == build_ep_list(r.list)
    IN  IF r.ends
        THEN [ends |-> TRUE, ep_list |-> ep_list,
              audio_if |-> FormatD(AudioIfOfEndpoints(ep_list))]
        ELSE [ends |-> FALSE, ep_list |-> <<>>, audio_if |-> <<>>]

\* The option dictionaries given to encode_config_descriptor: every audio_if,
\* both sync modes, with and without feature units, every sample_rate, the
\* protocol flags, and three settings of power and terminal types.
ConfigDescDicts ==
    { [audio_if |-> FormatD(a), use_async |-> y, enable_fu |-> f,
       sample_rate |-> FormatD(r), serial_protocol_enabled |-> s,
       io_protocol_enabled |-> i, self_powered |-> p.self_powered,
       max_current_ma |-> p.max_current_ma,
       output_terminal |-> p.output_terminal,
       input_terminal |-> p.input_terminal] :
         a \in 0..7, y \in {"1", "0"}, f \in {"yes", "no"}, r \in 0..2,
         s \in {"true", "false"}, i \in {"on", "off"},
         p \in { [self_powered |-> "1", max_current_ma |-> FormatD(100),
                  output_terminal |-> FormatD(1),
                  input_terminal |-> FormatD(1)],
                 [self_powered |-> "0", max_current_ma |-> FormatD(500),
                  output_terminal |-> FormatD(2),
                  input_terminal |-> FormatD(2)],
                 [self_powered |-> "n", max_current_ma |-> FormatD(0),
                  output_terminal |-> FormatD(3),
                  input_terminal |-> FormatD(1)] } }

ConfigDescInit == EncoderInit(ConfigDescDicts)

\* usbConfigurationDescriptor = encode_config_descriptor(d, _)
EncodeConfigDescriptor ==
    /\ enc.op = "none"
    /\ enc' = [enc EXCEPT !.op = "encode",
                          !.out = [usbConfigurationDescriptor |->
                                       encode_config_descriptor(enc.d)]]
    /\ UNCHANGED <<treeVars, structVars, call>>

\* back = decode_audio_if(out, _)
DecodeAudioIf ==
    /\ enc.op = "encode"
    /\ enc' = [enc EXCEPT !.op = "decode",
                          !.back = decode_audio_if(enc.out)]
    /\ UNCHANGED <<treeVars, structVars, call>>

ConfigDescNext == EncodeConfigDescriptor \/ DecodeAudioIf

SpecConfigDesc == ConfigDescInit /\ [][ConfigDescNext]_vars

\* the endpoints (alt/address) of the table in decode_audio_if's docstring
AudioIfTable(audio_if, use_async) ==
    CASE audio_if = 1 -> {<<1, 131>>}
      [] audio_if = 2 -> {<<1, 131>>, <<2, 131>>}
      [] audio_if = 3 -> IF use_async THEN {<<1, 3>>, <<1, 131>>}
                         ELSE {<<1, 3>>}
      [] audio_if = 4 -> IF use_async
                         THEN {<<1, 3>>, <<2, 3>>, <<1, 131>>, <<2, 130>>}
                         ELSE {<<1, 3>>, <<2, 3>>}
      [] audio_if = 5 -> {<<1, 3>>, <<1, 131>>}
      [] audio_if = 6 -> {<<2, 131>>}
      [] audio_if = 7 -> IF use_async THEN {<<2, 3>>, <<2, 130>>}
                         ELSE {<<2, 3>>}
      [] OTHER        -> {}

\* C25: for every audio_if 0..7 and both sync modes, with any enable_fu,
\* sample_rate and protocol flags, decode_audio_if of the descriptor that
\* encode_config_descriptor made returns the audio_if given, and the
\* (alt, address) pairs of the audio streaming endpoints in the descriptor
\* are those of the table for that configuration and sync mode.
C25_AudioIfRoundTrip ==
    enc.op = "decode" =>
        /\ enc.back.ends
        /\ enc.back.audio_if = enc.d.audio_if
        /\ { <<enc.back.ep_list[i][2], enc.back.ep_list[i][3]>> :
                i \in 1..Len(enc.back.ep_list) }
             = AudioIfTable(IntBase10(enc.d.audio_if),
                            strtobool(enc.d.use_async))
        /\ Len(enc.back.ep_list)
             = Cardinality(AudioIfTable(IntBase10(enc.d.audio_if),
                                        strtobool(enc.d.use_async)))

C25_Witness ==
    /\ enc.op = "decode"
    /\ enc.d.audio_if = <<"4">> /\ enc.d.use_async = "1"
    /\ enc.d.io_protocol_enabled = "on"
    /\ enc.back.audio_if = <<"4">>
    /\ Len(enc.back.ep_list) = 4

\* the lengths of the class-specific interface descriptors from list[i] on,
\* up to the next descriptor of another type
RECURSIVE ClassSpecificRun(_, _)
ClassSpecificRun(list, i) ==
    IF i > Len(list) \/ list[i][2] # CS_INTERFACE THEN 0
    ELSE Len(list[i]) + ClassSpecificRun(list, i + 1)

\* C27: for every option combination, bytes 2-3 of the returned array
\* (wTotalLength, little-endian) are the number of bytes of the array, and
\* the wTotalLength of the Audio Control Header, when there is one, is the
\* length of the header plus the lengths of its terminal and feature-unit
\* descriptors.
C27_TotalLengths ==
    enc.op \in {"encode", "decode"} =>
        LET ba == enc.out.usbConfigurationDescriptor
            r  == build_desc_list(ba)
        IN  /\ ba[3] + 256 * ba[4] = Len(ba)
            /\ r.ends
            /\ \A i \in 2..Len(r.list) :
                  (/\ r.list[i - 1][1] = 9 /\ r.list[i - 1][2] = INTERFACE
                   /\ r.list[i - 1][6] = 1 /\ r.list[i - 1][7] = 1) =>
                      /\ r.list[i][2] = CS_INTERFACE /\ r.list[i][3] = HEADER
                      /\ r.list[i][6] + 256 * r.list[i][7]
                           = ClassSpecificRun(r.list, i)
            /\ IntBase10(enc.d.audio_if) # 0 =>
                  \E i \in 2..Len(r.list) :
                      /\ r.list[i - 1][2] = INTERFACE
                      /\ r.list[i - 1][6] = 1 /\ r.list[i - 1][7] = 1

C27_Witness ==
    /\ enc.op = "encode"
    /\ enc.d.audio_if = <<"5">> /\ enc.d.enable_fu = "yes"
    /\ Len(enc.out.usbConfigurationDescriptor) = 286
    /\ enc.out.usbConfigurationDescriptor[4] = 1

(***************************************************************************)
(* encoder_2614.py: the iAP2 parameter helpers and encode_ident.           *)
(* A string is the sequence of its characters.                             *)
(***************************************************************************)
\* the characters of the strings: digits, upper and lower case letters in
\* the order of their codes, space and full stop
DecimalDigits ==
    << "0", "1", "2", "3", "4", "5", "6", "7", "8", "9" >>

UpperCase ==
    << "A", "B", "C", "D", "E", "F", "G", "H", "I", "J", "K", "L", "M",
       "N", "O", "P", "Q", "R", "S", "T", "U", "V", "W", "X", "Y", "Z" >>

LowerCase ==
    << "a", "b", "c", "d", "e", "f", "g", "h", "i", "j", "k", "l", "m",
       "n", "o", "p", "q", "r", "s", "t", "u", "v", "w", "x", "y", "z" >>

\* the position of c in the sequence chars
IndexIn(chars, c) == CHOOSE i \in 1..Len(chars) : chars[i] = c

\* the byte of one character in utf8str.encode('utf-8')
Ord(c) ==
    CASE c = " " -> 32
      [] c = "." -> 46
      [] \E i \in 1..10 : DecimalDigits[i] = c -> 47 + IndexIn(DecimalDigits, c)
      [] \E i \in 1..26 : UpperCase[i] = c -> 64 + IndexIn(UpperCase, c)
      [] \E i \in 1..26 : LowerCase[i] = c -> 96 + IndexIn(LowerCase, c)

\* bytearray(utf8str.encode('utf-8'))
EncodeUtf8(utf8str) == [i \in 1..Len(utf8str) |-> Ord(utf8str[i])]

\* iap2_parm(parmid)
iap2_parm(parmid) == <<0, 4, parmid \div 256, parmid % 256>>

\* iap2_parm_add_ba(pa, ba)
iap2_parm_add_ba(pa, ba) ==
    LET slen == pa[1] * 256 + pa[2] + Len(ba)
    IN  <<slen \div 256, slen % 256>> \o SubSeq(pa, 3, Len(pa)) \o ba

\* iap2_parm_add_utf8(pa, utf8str)
iap2_parm_add_utf8(pa, utf8str) ==
    iap2_parm_add_ba(pa, EncodeUtf8(utf8str) \o <<0>>)

\* iap2_parm_add_n16(pa, n16)
iap2_parm_add_n16(pa, n16) ==
    iap2_parm_add_ba(pa, <<n16 \div 256, n16 % 256>>)

\* iap2_parm_utf8(parmid, utf8str)
iap2_parm_utf8(parmid, utf8str) ==
    iap2_parm_add_utf8(iap2_parm(parmid), utf8str)

\* iap2_parm_n8(parmid, n8)
iap2_parm_n8(parmid, n8) == iap2_parm_add_ba(iap2_parm(parmid), <<n8>>)

\* iap2_parm_n16(parmid, n16)
iap2_parm_n16(parmid, n16) == iap2_parm_add_n16(iap2_parm(parmid), n16)

\* iap2_parm_add_n16 for each value of a list, in order
RECURSIVE AddAllN16(_, _)
AddAllN16(pa, values) ==
    IF values = <<>> THEN pa
    ELSE AddAllN16(iap2_parm_add_n16(pa, Head(values)), Tail(values))

\* iap2_parm_add_ba for each block of a list, in order
RECURSIVE AddAllBa(_, _)
AddAllBa(pa, blocks) ==
    IF blocks = <<>> THEN pa
    ELSE AddAllBa(iap2_parm_add_ba(pa, Head(blocks)), Tail(blocks))

\* encode_ident(d, _)
encode_ident(d) ==
    LET np_enabled        == strtobool(d.enable_now_playing)
        hid_enabled       == strtobool(d.enable_hid)
        provides_power    == strtobool(d.provides_power)
        app_launch        == strtobool(d.enable_app_launch)
        iop_enabled       == strtobool(d.io_protocol_enabled)
        ser_proto_enabled == strtobool(d.serial_protocol_enabled)
        msgs_sent_parm ==
            AddAllN16(iap2_parm(6),
                (IF np_enabled THEN <<20480, 20482>> ELSE <<>>)
             \o (IF hid_enabled THEN <<26624, 26626, 26627>> ELSE <<>>)
             \o <<44544, 44546>>
             \o (IF provides_power THEN <<44547>> ELSE <<>>)
             \o (IF app_launch THEN <<59906>> ELSE <<>>))
        msgs_rcvd_parm ==
            AddAllN16(iap2_parm(7),
                (IF hid_enabled THEN <<26625>> ELSE <<>>)
             \o <<44545>>
             \o (IF iop_enabled THEN <<59904, 59905>> ELSE <<>>)
             \o (IF np_enabled THEN <<20481>> ELSE <<>>))
        pwr_source_type == IF provides_power THEN 2 ELSE 0
        max_power == IntBase10(d.max_current_ma)
        usb_group ==
            AddAllBa(iap2_parm(16),
                << iap2_parm_n16(0, 1),
                   iap2_parm_utf8(1, <<"i", "A", "P", "2", " ", "A", "c", "c", "e", "s", "s", "o", "r", "y">>),
                   iap2_parm(2) >>)
        hid_group ==
            AddAllBa(iap2_parm(18),
                << iap2_parm_n16(0, 2),
                   iap2_parm_utf8(1, <<"M", "e", "d", "i", "a", " ", "P", "l", "a", "y", "b", "a", "c", "k", " ", "R", "e", "m", "o", "t", "e">>),
                   iap2_parm_n8(2, 1) >>)
        iop_group ==
            AddAllBa(iap2_parm(10),
                << iap2_parm_n8(0, 1),
                   iap2_parm_utf8(1, d.io_proto_name),
                   iap2_parm_n8(2, IntBase10(d.io_proto_match)) >>)
        ser_group ==
            AddAllBa(iap2_parm(10),
                << iap2_parm_n8(0, 2),
                   iap2_parm_utf8(1, d.serial_proto_name),
                   iap2_parm_n8(2, IntBase10(d.serial_proto_match)),
                   iap2_parm_n16(3, 1) >>)
    IN  iap2_parm_utf8(0, d.prod)
          \o iap2_parm_utf8(1, d.model)
          \o iap2_parm_utf8(2, d.mfr)
          \o iap2_parm_utf8(5, d.hw_version)
          \o msgs_sent_parm
          \o msgs_rcvd_parm
          \o iap2_parm_n8(8, pwr_source_type)
          \o iap2_parm_n16(9, max_power)
          \o iap2_parm_utf8(12, d.mfi_lang)
          \o iap2_parm_utf8(13, d.mfi_lang)
          \o usb_group
          \o (IF hid_enabled THEN hid_group ELSE <<>>)
          \o (IF iop_enabled THEN iop_group ELSE <<>>)
          \o (IF ser_proto_enabled THEN ser_group ELSE <<>>)

(***************************************************************************)
(* decoder_2614.py: the parameter search.  A result has st = "return"       *)
(* with the tuple returned (None is <<>>), st = "IndexError" when a byte   *)
(* past the end is read, st = "loop" when the while loop repeats with an    *)
(* unchanged array and so never ends.                                      *)
(***************************************************************************)
ParmReturned(len, pa) == [st |-> "return", len |-> len, pa |-> pa]

ParmRaised(what) == [st |-> what, len |-> 0, pa |-> <<>>]

\* _find_parm(ba, parmid)
RECURSIVE find_parm(_, _)
find_parm(pa, parmid) ==
    IF Len(pa) < 4 THEN ParmRaised("IndexError")
    ELSE LET parmlen == pa[1] * 256 + pa[2]
             pid     == pa[3] * 256 + pa[4]
         IN  IF pid = parmid
             THEN ParmReturned(parmlen - 4, Slice(pa, 4, parmlen))
             ELSE IF parmlen = 0 THEN ParmRaised("loop")
             ELSE IF ~(Len(pa) - parmlen > 0) THEN ParmReturned(0, <<>>)
             ELSE find_parm(Slice(pa, parmlen, Len(pa)), parmid)

\* _find_ea_protocol_group_by_id(ba, eapid)
RECURSIVE find_ea_protocol_group_by_id(_, _)
find_ea_protocol_group_by_id(pa, eapid) ==
    LET g == find_parm(pa, 10)
    IN  IF g.st # "return" THEN g
        ELSE IF g.len > 0
        THEN LET prm == find_parm(g.pa, 0)
             IN  IF prm.st # "return" THEN prm
                 ELSE IF prm.len = 1 /\ Len(prm.pa) = 0
                 THEN ParmRaised("IndexError")
                 ELSE IF prm.len = 1 /\ prm.pa[1] = eapid THEN g
                 ELSE find_ea_protocol_group_by_id(
                          Slice(pa, g.len, Len(pa)), eapid)
        ELSE ParmReturned(0, <<>>)

\* str(n) of an integer of either sign
Str(n) == IF n < 0 THEN <<"-">> \o FormatD(0 - n) ELSE FormatD(n)

\* decode_ea_protocol_match(out_dict, eapid): st and the string returned
decode_ea_protocol_match(out_dict, eapid) ==
    LET g == find_ea_protocol_group_by_id(out_dict.iap2IdentParms, eapid)
    IN  IF g.st # "return" THEN [st |-> g.st, str |-> <<>>]
        ELSE IF g.len > 0
        THEN LET m == find_parm(g.pa, 2)
             IN  IF m.st # "return" THEN [st |-> m.st, str |-> <<>>]
                 ELSE [st |-> "return", str |-> Str(m.len)]
        ELSE [st |-> "return", str |-> Str(0)]

\* The dictionaries given to encode_ident: every combination of the six
\* flags, three match values for each protocol, two IO protocol names.
IdentDicts ==
    { [enable_now_playing |-> n, enable_hid |-> h, provides_power |-> p,
       enable_app_launch |-> a, io_protocol_enabled |-> i,
       serial_protocol_enabled |-> s,
       io_proto_match |-> FormatD(im), serial_proto_match |-> FormatD(sm),
       io_proto_name |-> ion, serial_proto_name |-> <<"c", "o", "m", ".", "a", ".", "s", "e", "r">>,
       prod |-> <<"P", "r", "o", "d">>, model |-> <<"M", "1">>,
       mfr |-> <<"M", "f", "r">>, hw_version |-> <<"1", ".", "0">>,
       max_current_ma |-> FormatD(100), mfi_lang |-> <<"e", "n">>] :
         n \in {"1", "0"}, h \in {"1", "0"}, p \in {"1", "0"},
         a \in {"1", "0"}, i \in {"1", "0"}, s \in {"1", "0"},
         im \in {0, 1, 2}, sm \in {0, 1, 3},
         ion \in {<<"c", "o", "m", ".", "a", ".", "i", "o">>, <<"i", "o">>} }

IdentInit == EncoderInit(IdentDicts)

\* iap2IdentParms = encode_ident(d, _)
EncodeIdent ==
    /\ enc.op = "none"
    /\ enc' = [enc EXCEPT !.op = "encode",
                          !.out = [iap2IdentParms |-> encode_ident(enc.d)]]
    /\ UNCHANGED <<treeVars, structVars, call>>

\* back = decode_ea_protocol_match(out, eapid)
DecodeEaProtocolMatch(eapid) ==
    /\ enc.op = "encode"
    /\ enc' = [enc EXCEPT !.op = "decode",
                          !.back = [eapid |-> eapid,
                                    r |-> decode_ea_protocol_match(enc.out,
                                                                   eapid)]]
    /\ UNCHANGED <<treeVars, structVars, call>>

IdentNext == EncodeIdent \/ \E eapid \in {1, 2} : DecodeEaProtocolMatch(eapid)

SpecIdent == IdentInit /\ [][IdentNext]_vars

\* the EA protocol group with the identifier eapid was encoded
GroupPresent(d, eapid) ==
    IF eapid = 1 THEN strtobool(d.io_protocol_enabled)
    ELSE strtobool(d.serial_protocol_enabled)

\* the protocol match value given to the encoder for the group eapid
MatchGiven(d, eapid) ==
    IF eapid = 1 THEN d.io_proto_match ELSE d.serial_proto_match

\* C26: for a parameter block built by encode_ident,
\* decode_ea_protocol_match(eapid) ends, and when the EA protocol group with
\* the identifier eapid (1 IO, 2 serial) is in the block, also next to the
\* other group, it returns the protocol match value that the encoder was
\* given for that group.
C26_EaProtocolMatchRoundTrip ==
    enc.op = "decode" =>
        /\ enc.back.r.st # "loop"
        /\ GroupPresent(enc.d, enc.back.eapid) =>
              /\ enc.back.r.st = "return"
              /\ enc.back.r.str = MatchGiven(enc.d, enc.back.eapid)

(***************************************************************************)
(* packer.py: what isvalid covers (checksum 275-276, isvalid 281-289).      *)
(***************************************************************************)
\* the changed byte lies in the cookie, in the checksum field, or at or
\* after the offset of 'length'
TamperedWhereCovered ==
    /\ last.op = "tamper"
    /\ LET fields == FieldsOfStruct(last.struct)
           at     == last.pos - 1
       IN  \/ at < OffsetOf(fields, "version")
           \/ at >= OffsetOf(fields, "checksum")

\* C29 as stated: in every buffer a device struct's pack produced, changing
\* a single byte of the cookie, of the checksum field or at or after the
\* offset of 'length' makes isvalid return false.
C29_CoveredByteDetected ==
    TamperedWhereCovered
        => isvalid(FieldsOfStruct(last.struct), skip, Blob) = "False"

\* C29 amended: in every buffer a device struct's pack produced and isvalid
\* accepts, changing a single byte of the cookie, of the checksum field or
\* at or after the offset of 'length' (the tail included) makes isvalid
\* return false; the checksum field ends where the summed region starts, so
\* a change of a checksum byte leaves the sum as it was.
C29_CoveredByteDetectedInValid ==
    TamperedWhereCovered =>
        LET fields == FieldsOfStruct(last.struct)
            at     == last.pos - 1
        IN  /\ OffsetOf(fields, "checksum") + 2 = OffsetOf(fields, "length")
            /\ at < OffsetOf(fields, "length")
                  => checksum(fields, Blob) = checksum(fields, PackedOut)
            /\ isvalid(fields, skip, PackedOut) = "True"
                  => isvalid(fields, skip, Blob) = "False"

\* a checksum byte of a valid buffer was changed: the sum is the same, the
\* stored checksum is not, and isvalid returns false
C29_Witness ==
    /\ TamperedValid
    /\ last.pos - 1 = OffsetOf(FieldsOfStruct(last.struct), "checksum") + 1
    /\ checksum(FieldsOfStruct(last.struct), Blob)
         = checksum(FieldsOfStruct(last.struct), PackedOut)
    /\ StoredU16(Blob, OffsetOf(FieldsOfStruct(last.struct), "checksum"))
         # StoredU16(PackedOut,
                     OffsetOf(FieldsOfStruct(last.struct), "checksum"))
    /\ isvalid(FieldsOfStruct(last.struct), skip, Blob) = "False"

(***************************************************************************)
(* packer.py: the one VarArray of both device tables (107, 258-273).       *)
(***************************************************************************)
\* C30: the two device tables have the same fixed-region size, 266, so once
\* device structs have been constructed, in any order and number, the skip
\* of the shared VarArray is the fixed-region size of whichever of them is
\* used next, and in the buffer a device struct packs, the offset stored in
\* each variable field's slot, counted from the end of that struct's own
\* fixed region, is where the field's payload lies.
C30_SkipIsOwnFixedSize ==
    /\ StructSize(cp2614_fields) = 266
    /\ StructSize(cp2615_fields) = 266
    /\ \A k \in structs \cap DeviceKinds :
          skip = StructSize(FieldsOfStruct(k))
    /\ JustFinalized =>
          LET fields == FieldsOfStruct(last.struct)
              size   == StructSize(fields)
          IN  \A i \in VarFields(fields) :
                  LET payload == Get(PackedArg, fields[i].name,
                                     fields[i].default).b
                      slot    == SizeOfFirst(fields, i - 1)
                      off     == StoredU16(Blob, slot)
                  IN  SubSeq(Blob, size + off + 1,
                             size + off + StoredU16(Blob, slot + 2))
                        = payload

\* both device structs have been constructed and ConfigStructCP2614 packed a
\* record whose usbDeviceDescriptor has three bytes: they lie right after
\* the 266 bytes of the fixed region, at the stored offset 0
C30_Witness ==
    /\ JustFinalized
    /\ structs = DeviceKinds
    /\ last.struct = "ConfigStructCP2614"
    /\ skip = 266
    /\ "usbDeviceDescriptor" \in DOMAIN PackedArg
    /\ PackedArg["usbDeviceDescriptor"] = B(<<255, 0, 18>>)
    /\ StoredU16(Blob, OffsetOf(cp2614_fields, "usbDeviceDescriptor")) = 0
    /\ SubSeq(Blob, 267, 269) = <<255, 0, 18>>

====
